---------------------------- MODULE Spec2Model ----------------------------
(***************************************************************************)
(* A model of go.senan.xyz/sqlb (src/sqlb.go): the Query builder and its   *)
(* SQL expander, the fragment generators InsertSQL, UpdateSQL and InSQL,   *)
(* the row functions ScanRow, ScanRows and IterRows, Exec, the log         *)
(* function, the JSON column wrapper and the prepared-statement cache.     *)
(*                                                                         *)
(* SQL text is a sequence of one-character strings.  A Query value is the  *)
(* Go struct {query *strings.Builder; args []any; lastByte byte}: the      *)
(* buffer lives on a heap of builders and a Query holds a reference to it, *)
(* so a Query passed by value (as an argument of another Query) shares its *)
(* buffer with the variable it was copied from.                            *)
(***************************************************************************)
EXTENDS Integers, Sequences, FiniteSets, TLC

(***************************************************************************)
(* Bounds of the model.                                                    *)
(***************************************************************************)
MaxAppends == 3      \* successful Append calls in one behaviour
MaxArgs == 2         \* longest argument list handed to one Append
MaxCalls == 3        \* calls made on one StmtCache, each by its own goroutine
MaxItems == 3        \* items handed to one InsertSQL or InSQL call
MaxRows == 3         \* rows in the result set of one query
MaxLogged == 3       \* row function and Exec calls made one after the other
MaxField == 2        \* largest value of a field of a JSON document
MaxTraversals == 2   \* traversals of one IterRows sequence

(***************************************************************************)
(* Characters.  NUL is the zero value of the byte field lastByte.  BadByte *)
(* is a byte that is not valid UTF-8; ranging over a string decodes it to  *)
(* the rune U+FFFD (RuneError), which WriteRune encodes as U+FFFD.         *)
(***************************************************************************)
NUL == "NUL"
BadByte == "0xFF"
RuneError == "U+FFFD"
NilBuilder == 0

\* The fragments handed to Append: empty, plain, ending in a space, ending
\* in a tab, with one, two and three placeholders.
Fragments ==
  { <<>>,
    <<"a">>,
    <<"b", " ">>,
    <<"c", "\t">>,
    <<"x", "=", "?">>,
    <<"?", "|", "?">>,
    <<"?", "?", "?">> }

\* The Go variables of type Query the behaviours act on.
QVars == {"q", "sub"}

VARIABLES
  builders,   \* the heap: builders[r] is the buffer of the strings.Builder r
  qv,         \* qv[v]: the Query value held by variable v
  serial,     \* the number of scalar arguments handed out so far
  nAppends,   \* the number of Append calls that returned
  hist,       \* hist[v]: the (fragment, args) pairs appended to v since it was declared
  out         \* the last call: its inputs, the Query before it, and its outcome

qvars == <<builders, qv, serial, nAppends, hist, out>>

VARIABLES
  mu,         \* sc.mu: the goroutines holding the read lock, and the one holding the lock
  cache,      \* sc.cache: the statement cached for each SQL text, NoStmt when none
  stmts,      \* the statements the connection prepared: stmts[s] has a text and is open or closed
  call,       \* call[p]: the call goroutine p makes: where it is and its local variables
  prepares    \* prepares[t]: the PrepareContext calls made for text t, each "ok" or "err"

cvars == <<mu, cache, stmts, call, prepares>>

VARIABLES
  gen         \* the last InsertSQL, UpdateSQL or InSQL call: its items and its outcome

VARIABLES
  db,         \* what the connection answers to the running row function
  cursor,     \* the *sql.Rows the connection returned: its position, open or closed
  fn,         \* the running row function: which, where it is, what it returned
  seen,       \* what the destination and the consumer have seen of the rows
  logs        \* the calls made so far and the log function's invocations

rvars == <<db, cursor, fn, seen, logs>>

VARIABLES
  json        \* a JSON[T] wrapper: its Data and the last Scan made on it

\* What a step of the Query machine, of the cache, of a generator and of a
\* row function leaves alone.
nonQueryVars == <<mu, cache, stmts, call, prepares, gen, db, cursor, fn, seen, logs, json>>
nonCacheVars == <<builders, qv, serial, nAppends, hist, out, gen, db, cursor, fn, seen, logs,
                  json>>
nonGenVars == <<builders, qv, serial, nAppends, hist, out, mu, cache, stmts, call, prepares,
                db, cursor, fn, seen, logs, json>>
nonRowsVars == <<builders, qv, serial, nAppends, hist, out, mu, cache, stmts, call, prepares,
                 gen, json>>
nonJSONVars == <<builders, qv, serial, nAppends, hist, out, mu, cache, stmts, call, prepares,
                 gen, db, cursor, fn, seen, logs>>

vars == <<builders, qv, serial, nAppends, hist, out, mu, cache, stmts, call, prepares,
          gen, db, cursor, fn, seen, logs, json>>

(***************************************************************************)
(* Values.                                                                 *)
(***************************************************************************)
\* type Query struct: the zero value has a nil builder, no args, lastByte 0.
ZeroQuery == [query |-> NilBuilder, args |-> <<>>, lastByte |-> NUL]

\* An argument is a scalar (any value that is not a SQLer) or a SQLer; the
\* SQLers of this package are Query values.
Scalar(n) == [kind |-> "scalar", v |-> n]
SubQuery(q) == [kind |-> "sqler", q |-> q]
IsSQLer(a) == a.kind = "sqler"

\* strings.Count(s, c) for a one-character c.
RECURSIVE Count(_, _)
Count(s, c) ==
  IF s = <<>> THEN 0
  ELSE (IF Head(s) = c THEN 1 ELSE 0) + Count(Tail(s), c)

\* fmt.Sprintf("want %d args, got %d", want, got)
PanicMessageSwapped(want, got) ==
  "want " \o ToString(got) \o " args, got " \o ToString(want)

PanicMessage(want, got) ==
  "want " \o ToString(want) \o " args, got " \o ToString(got)


\* The panic values of the Go runtime that the package can raise.
NilDeref == "invalid memory address or nil pointer dereference"
IndexOutOfRange == "index out of range"

\* The text of a Query's buffer: q.query.String().  Only for q.query # nil.
TextOf(q, b) == b[q.query]

(***************************************************************************)
(* func (q *Query) Append(query string, args ...any)                       *)
(* The result is the panic value ("" when the call returns), the Query     *)
(* after the call and the heap after the call.                             *)
(***************************************************************************)
\* Append without the placeholder check of lines 101-103.
QueryAppendUnchecked(q, b, query, args) ==
  LET b1 == IF q.query = NilBuilder THEN Append(b, <<>>) ELSE b
      ref == IF q.query = NilBuilder THEN Len(b) + 1 ELSE q.query
      sep == IF Len(b1[ref]) > 0 /\ q.lastByte # " " THEN <<" ">> ELSE <<>>
      lb == IF Len(query) > 0 THEN query[Len(query)] ELSE q.lastByte
  IN [panic |-> "",
      q |-> [query |-> ref, args |-> q.args \o args, lastByte |-> lb],
      builders |-> [b1 EXCEPT ![ref] = @ \o sep \o query]]

\* Append that checks the placeholder count only after it has written.
QueryAppendCheckLast(q, b, query, args) ==
  LET r == QueryAppendUnchecked(q, b, query, args)
      want == Count(query, "?")
      got == Len(args)
  IN IF want # got THEN [r EXCEPT !.panic = PanicMessage(want, got)] ELSE r

\* Append that never writes a separator.
QueryAppendNoSeparator(q, b, query, args) ==
  LET want == Count(query, "?")
      got == Len(args)
      b1 == IF q.query = NilBuilder THEN Append(b, <<>>) ELSE b
      ref == IF q.query = NilBuilder THEN Len(b) + 1 ELSE q.query
      lb == IF Len(query) > 0 THEN query[Len(query)] ELSE q.lastByte
  IN IF want # got
       THEN [panic |-> PanicMessage(want, got), q |-> q, builders |-> b]
       ELSE [panic |-> "",
             q |-> [query |-> ref, args |-> q.args \o args, lastByte |-> lb],
             builders |-> [b1 EXCEPT ![ref] = @ \o query]]

QueryAppend(q, b, query, args) ==
  LET want == Count(query, "?")
      got == Len(args)
      \* if q.query == nil { q.query = &strings.Builder{} }
      b1 == IF q.query = NilBuilder THEN Append(b, <<>>) ELSE b
      ref == IF q.query = NilBuilder THEN Len(b) + 1 ELSE q.query
      \* if q.query.Len() > 0 && q.lastByte != ' ' { q.query.WriteByte(' ') }
      sep == IF Len(b1[ref]) > 0 /\ q.lastByte # " " THEN <<" ">> ELSE <<>>
      \* if len(query) > 0 { q.lastByte = query[len(query)-1] }
      lb == IF Len(query) > 0 THEN query[Len(query)] ELSE q.lastByte
  IN IF want # got
       THEN [panic |-> PanicMessage(want, got), q |-> q, builders |-> b]
       ELSE [panic |-> "",
             q |-> [query |-> ref, args |-> q.args \o args, lastByte |-> lb],
             builders |-> [b1 EXCEPT ![ref] = @ \o sep \o query]]

\* func NewQuery(query string, args ...any) Query
NewQuery(b, query, args) == QueryAppend(ZeroQuery, b, query, args)

(***************************************************************************)
(* func (q Query) SQL() (string, []any)                                    *)
(* The result is the panic value ("" when the call returns), the text and  *)
(* the arguments.                                                          *)
(***************************************************************************)
\* for _, c := range s: a byte that is not UTF-8 is decoded as RuneError.
DecodeRune(c) == IF c = BadByte THEN RuneError ELSE c

HasSQLer(args) == \E i \in DOMAIN args : IsSQLer(args[i])

Returned(text, args) == [panic |-> "", text |-> text, args |-> args]
Panicked(p) == [panic |-> p, text |-> <<>>, args |-> <<>>]

RECURSIVE SQL(_, _)
RECURSIVE ExpandFrom(_, _, _, _)

\* The loop of the slow path from the i-th rune on, count placeholders seen.
ExpandFrom(q, b, i, count) ==
  LET s == TextOf(q, b) IN
  IF i > Len(s) THEN Returned(<<>>, <<>>)
  ELSE IF s[i] # "?"
    THEN LET rest == ExpandFrom(q, b, i + 1, count)
         IN IF rest.panic # "" THEN rest
            ELSE Returned(<<DecodeRune(s[i])>> \o rest.text, rest.args)
  ELSE IF count + 1 > Len(q.args) THEN Panicked(IndexOutOfRange)
  ELSE LET arg == q.args[count + 1]
           here == IF IsSQLer(arg) THEN SQL(arg.q, b)
                   ELSE Returned(<<"?">>, <<arg>>)
       IN IF here.panic # "" THEN here
          ELSE LET rest == ExpandFrom(q, b, i + 1, count + 1)
               IN IF rest.panic # "" THEN rest
                  ELSE Returned(here.text \o rest.text, here.args \o rest.args)

\* SQL whose fast path is taken whatever the arguments are.
SQLFastOnly(q, b) ==
  IF q.query = NilBuilder THEN Panicked(NilDeref)
  ELSE Returned(TextOf(q, b), q.args)

SQL(q, b) ==
  IF q.query = NilBuilder THEN Panicked(NilDeref)
  ELSE IF ~HasSQLer(q.args) THEN Returned(TextOf(q, b), q.args)
  ELSE ExpandFrom(q, b, 1, 0)

\* The heap after q.SQL(): a slow path that wrote into the receiver's builder.
SQLEffectInPlace(q, b) ==
  LET r == SQL(q, b)
  IN IF q.query # NilBuilder /\ HasSQLer(q.args) /\ r.panic = ""
       THEN [b EXCEPT ![q.query] = r.text] ELSE b

\* The heap after q.SQL(): the slow path writes a builder of its own.
SQLEffect(q, b) == b

(***************************************************************************)
(* The Query state machine: Go code that declares Query variables, appends *)
(* to them, passes them by value as arguments and calls SQL().             *)
(***************************************************************************)
\* Where the arguments of a call come from: a scalar, or the value of
\* another Query variable (passed by value: a copy that shares the builder).
ArgSources(v) == {"scalar"} \cup (QVars \ {v})

\* The number of scalars among the first i arguments of shape sh.
ScalarsBefore(sh, i) == Cardinality({j \in 1..i : sh[j] = "scalar"})

\* The arguments of shape sh: each scalar is a value no earlier call was
\* given, so that the order and the number of arguments can be observed.
ArgsOf(sh, n) ==
  [i \in 1..n |->
     IF sh[i] = "scalar" THEN Scalar(serial + ScalarsBefore(sh, i))
     ELSE SubQuery(qv[sh[i]])]

InitQuery ==
  /\ builders = <<>>
  /\ qv = [v \in QVars |-> ZeroQuery]
  /\ serial = 0
  /\ nAppends = 0
  /\ hist = [v \in QVars |-> <<>>]
  /\ out = [op |-> "none"]

\* var v Query
Declare(v) ==
  /\ qv[v] # ZeroQuery
  /\ qv' = [qv EXCEPT ![v] = ZeroQuery]
  /\ hist' = [hist EXCEPT ![v] = <<>>]
  /\ out' = [op |-> "Declare", v |-> v]
  /\ UNCHANGED <<builders, serial, nAppends>>
  /\ UNCHANGED nonQueryVars

\* v.Append(query, args...)
DoAppend(v, query, args) ==
  LET r == QueryAppend(qv[v], builders, query, args)
      ok == r.panic = ""
  IN /\ builders' = r.builders
     /\ qv' = [qv EXCEPT ![v] = r.q]
     /\ serial' = IF ok THEN serial + Cardinality({i \in DOMAIN args : ~IsSQLer(args[i])})
                  ELSE serial
     /\ nAppends' = IF ok THEN nAppends + 1 ELSE nAppends
     /\ hist' = IF ok THEN [hist EXCEPT ![v] = Append(@, [query |-> query, args |-> args])]
                ELSE hist
     /\ out' = [op |-> "Append", v |-> v, query |-> query, args |-> args,
                before |-> qv[v],
                beforeText |-> IF qv[v].query = NilBuilder THEN <<>> ELSE TextOf(qv[v], builders),
                heapBefore |-> builders,
                panic |-> r.panic]
     /\ UNCHANGED nonQueryVars

\* v.Append(query, args...) with as many arguments as placeholders.
AppendCall(v, fragments, sources) ==
  /\ nAppends < MaxAppends
  /\ \E query \in fragments :
       LET n == Count(query, "?")
       IN \E sh \in [1..n -> sources] : DoAppend(v, query, ArgsOf(sh, n))

\* v.Append(query, args...) with too few or too many arguments.
AppendMismatch(v, fragments) ==
  /\ nAppends < MaxAppends
  /\ \E query \in fragments : \E n \in (0..MaxArgs) \ {Count(query, "?")} :
       DoAppend(v, query, ArgsOf([i \in 1..n |-> "scalar"], n))

\* text, args := v.SQL()
SQLCall(v) ==
  LET r == SQL(qv[v], builders)
      same == out.op = "SQL" /\ out.v = v
  IN /\ builders' = SQLEffect(qv[v], builders)
     /\ out' = [op |-> "SQL", v |-> v,
                before |-> qv[v],
                beforeText |-> IF qv[v].query = NilBuilder THEN <<>> ELSE TextOf(qv[v], builders),
                heapBefore |-> builders,
                panic |-> r.panic, text |-> r.text, args |-> r.args,
                again |-> same,
                prev |-> IF same THEN [panic |-> out.panic, text |-> out.text, args |-> out.args]
                         ELSE Panicked("")]
     /\ UNCHANGED <<qv, serial, nAppends, hist>>
     /\ UNCHANGED nonQueryVars

(***************************************************************************)
(* type StmtCache struct {mu sync.RWMutex; cache map[string]*sql.Stmt; db} *)
(* Each call on the cache is made by a goroutine of its own; calls made    *)
(* one after the other are the interleavings in which one goroutine        *)
(* returns before the next one starts.                                     *)
(***************************************************************************)
Callers == 1..MaxCalls
Texts == {"select 1", "select  1"}
NoStmt == 0
NoCaller == 0

\* The local variables of a call that has not started.
IdleCall ==
  [pc |-> "idle", kind |-> "none", query |-> "", stmt |-> NoStmt,
   err |-> FALSE, missed |-> FALSE, found |-> {}, todo |-> {}, errs |-> {},
   result |-> "none"]

\* NewStmtCache(db)
InitCache ==
  /\ mu = [readers |-> {}, writer |-> NoCaller]
  /\ cache = [t \in Texts |-> NoStmt]
  /\ stmts = <<>>
  /\ call = [p \in Callers |-> IdleCall]
  /\ prepares = [t \in Texts |-> <<>>]

\* Texts that differ only in whitespace share one entry of the map.
KeyNormalized(query) == "select 1"

\* sc.cache[query]: the key of the map is the text itself
Key(query) == query

\* sync.RWMutex: RLock is granted when no goroutine holds the lock, Lock
\* when no goroutine holds the lock or the read lock.
CanRLock == mu.writer = NoCaller

\* Lock is granted while goroutines hold the read lock.
CanLockDespiteReaders == mu.writer = NoCaller

CanLock == mu.writer = NoCaller /\ mu.readers = {}

\* Goroutines are interchangeable: they are numbered in the order in which
\* their calls start.
IsNextCaller(p) == \A o \in Callers : o < p => call[o].pc # "idle"

\* sc.QueryContext(ctx, query, args...) or sc.ExecContext(ctx, query, args...)
\* is called: it calls sc.getStmt(ctx, query).
StartCallOf(p, kinds, texts) ==
  /\ call[p].pc = "idle"
  /\ IsNextCaller(p)
  /\ \E kind \in kinds : \E query \in texts :
       call' = [call EXCEPT ![p] = [@ EXCEPT !.pc = "rlock", !.kind = kind, !.query = query]]
  /\ UNCHANGED <<mu, cache, stmts, prepares>>
  /\ UNCHANGED nonCacheVars

StartCall(p) == StartCallOf(p, {"QueryContext", "ExecContext"}, Texts)

\* sc.mu.RLock()
GetStmtRLock(p) ==
  /\ call[p].pc = "rlock"
  /\ CanRLock
  /\ mu' = [mu EXCEPT !.readers = @ \cup {p}]
  /\ call' = [call EXCEPT ![p].pc = "read"]
  /\ UNCHANGED <<cache, stmts, prepares>>
  /\ UNCHANGED nonCacheVars

\* stmt, ok := sc.cache[query]; sc.mu.RUnlock(); if ok { return stmt, nil }
GetStmtRead(p) ==
  /\ call[p].pc = "read"
  /\ mu' = [mu EXCEPT !.readers = @ \ {p}]
  /\ call' = [call EXCEPT ![p] =
       IF cache[Key(call[p].query)] # NoStmt
         THEN [@ EXCEPT !.pc = "use", !.stmt = cache[Key(call[p].query)]]
         ELSE [@ EXCEPT !.pc = "lock", !.missed = TRUE]]
  /\ UNCHANGED <<cache, stmts, prepares>>
  /\ UNCHANGED nonCacheVars

\* The second lookup, made under the lock, always misses.
RecheckSkipped(c, query) == NoStmt

\* stmt, ok = sc.cache[query], made under the lock
Recheck(c, query) == c[query]

\* sc.mu.Lock(); defer sc.mu.Unlock(); the second lookup
GetStmtLock(p) ==
  /\ call[p].pc = "lock"
  /\ CanLock
  /\ mu' = [mu EXCEPT !.writer = p]
  /\ LET stmt == Recheck(cache, Key(call[p].query))
     IN call' = [call EXCEPT ![p] =
          IF stmt # NoStmt
            THEN [@ EXCEPT !.pc = "unlock", !.stmt = stmt]
            ELSE [@ EXCEPT !.pc = "prepare"]]
  /\ UNCHANGED <<cache, stmts, prepares>>
  /\ UNCHANGED nonCacheVars

\* stmt, err := sc.db.PrepareContext(ctx, query); if err != nil { return nil, err }
\* sc.cache[query] = stmt
GetStmtPrepare(p) ==
  /\ call[p].pc = "prepare"
  /\ \E ok \in BOOLEAN :
       IF ok
         THEN /\ stmts' = Append(stmts, [query |-> call[p].query, closed |-> FALSE])
              /\ cache' = [cache EXCEPT ![Key(call[p].query)] = Len(stmts) + 1]
              /\ call' = [call EXCEPT ![p] = [@ EXCEPT !.pc = "unlock", !.stmt = Len(stmts) + 1]]
              /\ prepares' = [prepares EXCEPT ![call[p].query] = Append(@, "ok")]
         ELSE /\ call' = [call EXCEPT ![p] = [@ EXCEPT !.pc = "unlock", !.err = TRUE]]
              /\ prepares' = [prepares EXCEPT ![call[p].query] = Append(@, "err")]
              /\ UNCHANGED <<cache, stmts>>
  /\ UNCHANGED mu
  /\ UNCHANGED nonCacheVars

\* The lock is released on the successful return only.
UnlockUnlessFailed(m, c) == IF c.err THEN m ELSE [m EXCEPT !.writer = NoCaller]

\* defer sc.mu.Unlock(): runs on every return of getStmt and of Close
DeferredUnlock(m, c) == [m EXCEPT !.writer = NoCaller]

\* The failure of PrepareContext is dropped: the caller gets nil.
GetStmtReturnNil(c) ==
  IF c.err THEN [c EXCEPT !.pc = "done", !.result = "ok"] ELSE [c EXCEPT !.pc = "use"]

\* stmt, err := sc.getStmt(ctx, query); if err != nil { return nil, err }
GetStmtReturn(c) ==
  IF c.err THEN [c EXCEPT !.pc = "done", !.result = "prepare error"]
  ELSE [c EXCEPT !.pc = "use"]

\* the deferred sc.mu.Unlock(), and getStmt returns
GetStmtUnlock(p) ==
  /\ call[p].pc = "unlock"
  /\ call[p].kind \in {"QueryContext", "ExecContext"}
  /\ mu' = DeferredUnlock(mu, call[p])
  /\ call' = [call EXCEPT ![p] = GetStmtReturn(@)]
  /\ UNCHANGED <<cache, stmts, prepares>>
  /\ UNCHANGED nonCacheVars

\* return stmt.QueryContext(ctx, args...) or stmt.ExecContext(ctx, args...):
\* database/sql refuses a statement that has been closed.
UseStmt(p) ==
  /\ call[p].pc = "use"
  /\ call' = [call EXCEPT ![p] =
       [@ EXCEPT !.pc = "done",
                 !.result = IF stmts[call[p].stmt].closed THEN "statement is closed" ELSE "ok"]]
  /\ UNCHANGED <<mu, cache, stmts, prepares>>
  /\ UNCHANGED nonCacheVars

\* sqlb.Exec(ctx, tx, query): a call made on the connection itself, not on
\* the cache
DirectCall(p) ==
  /\ call[p].pc = "idle"
  /\ IsNextCaller(p)
  /\ \E query \in Texts :
       call' = [call EXCEPT ![p] =
         [@ EXCEPT !.pc = "done", !.kind = "direct", !.query = query, !.result = "ok"]]
  /\ UNCHANGED <<mu, cache, stmts, prepares>>
  /\ UNCHANGED nonCacheVars

\* sc.Close() is called: sc.mu.Lock(); defer sc.mu.Unlock()
CloseLock(p) ==
  /\ call[p].pc = "idle"
  /\ IsNextCaller(p)
  /\ CanLock
  /\ mu' = [mu EXCEPT !.writer = p]
  /\ call' = [call EXCEPT ![p] =
       [@ EXCEPT !.pc = "closing", !.kind = "Close",
                 !.found = {t \in Texts : cache[t] # NoStmt},
                 !.todo = {t \in Texts : cache[t] # NoStmt}]]
  /\ UNCHANGED <<cache, stmts, prepares>>
  /\ UNCHANGED nonCacheVars

\* for _, stmt := range sc.cache { if err := stmt.Close(); err != nil {...} }
\* one iteration: the map is ranged over in no fixed order.
CloseStmt(p) ==
  /\ call[p].pc = "closing"
  /\ \E t \in call[p].todo : \E ok \in BOOLEAN :
       /\ stmts' = [stmts EXCEPT ![cache[t]].closed = @ \/ ok]
       /\ call' = [call EXCEPT ![p] =
            [@ EXCEPT !.todo = @ \ {t},
                      !.errs = IF ok THEN @ ELSE @ \cup {t}]]
  /\ UNCHANGED <<mu, cache, prepares>>
  /\ UNCHANGED nonCacheVars

\* The loop is left at the first stmt.Close() that fails.
RangeOverAtFailure(c) == c.todo = {} \/ c.errs # {}

\* for _, stmt := range sc.cache {...} is over: every entry has been visited
RangeOver(c) == c.todo = {}

\* errors.Join(errs...), the deferred sc.mu.Unlock(), and Close returns
CloseReturn(p) ==
  /\ call[p].pc = "closing"
  /\ RangeOver(call[p])
  /\ mu' = DeferredUnlock(mu, call[p])
  /\ call' = [call EXCEPT ![p] =
       [@ EXCEPT !.pc = "done",
                 !.result = IF call[p].errs = {} THEN "ok" ELSE "closing statements"]]
  /\ UNCHANGED <<cache, stmts, prepares>>
  /\ UNCHANGED nonCacheVars

(***************************************************************************)
(* The fragment generators UpdateSQL, InsertSQL and InSQL.  A record is    *)
(* what its Values() and IsGenerated methods answer.                       *)
(***************************************************************************)
\* The columns of a record, in the order Values() declares them.
Columns == << <<"i", "d">>, <<"n", "a", "m", "e">>, <<"a", "g", "e">> >>

\* The sets of columns a record's IsGenerated may answer true for.
GeneratedSets ==
  { {<<"i", "d">>},
    {},
    {<<"n", "a", "m", "e">>},
    {<<"i", "d">>, <<"n", "a", "m", "e">>},
    {<<"i", "d">>, <<"n", "a", "m", "e">>, <<"a", "g", "e">>} }

\* The i-th record handed to a call: column c holds the value 10*i + c.
Item(i, g) ==
  [values |-> [c \in DOMAIN Columns |-> [Name |-> Columns[c], Value |-> Scalar(10 * i + c)]],
   generated |-> g]

\* item.IsGenerated(column) answers for every column the same.
IsGeneratedNever(item, column) == FALSE

\* item.IsGenerated(column)
IsGenerated(item, column) == column \in item.generated

\* item.Values()
Values(item) == item.values

\* strings.Join(elems, sep)
RECURSIVE Join(_, _)
Join(elems, sep) ==
  IF elems = <<>> THEN <<>>
  ELSE IF Len(elems) = 1 THEN elems[1]
  ELSE elems[1] \o sep \o Join(Tail(elems), sep)

\* slices.Repeat([]string{s}, n)
Repeat(s, n) == [i \in 1..n |-> s]

\* Nothing is put before an assignment.
PrefixNone(set) == <<>>

\* var p string; if set { p = ", " }
Prefix(set) == IF set THEN <<",", " ">> ELSE <<>>

\* for _, v := range item.Values() {...}, from the i-th value on
RECURSIVE UpdateFrom(_, _, _, _, _)
UpdateFrom(item, i, set, q, b) ==
  IF i > Len(Values(item)) THEN [panic |-> "", q |-> q, builders |-> b]
  ELSE LET v == Values(item)[i]
       IN IF IsGenerated(item, v.Name) THEN UpdateFrom(item, i + 1, set, q, b)
          ELSE LET r == QueryAppend(q, b, Prefix(set) \o v.Name \o <<"=", "?">>, <<v.Value>>)
               IN IF r.panic # "" THEN r
                  ELSE UpdateFrom(item, i + 1, TRUE, r.q, r.builders)

\* func UpdateSQL(item Updatable) SQLer: var b Query, appended to, returned
UpdateSQL(b, item) == UpdateFrom(item, 1, FALSE, ZeroQuery, b)

\* The values of item that are not skipped, each item judged by the first.
KeptValuesByFirst(item, first) ==
  SelectSeq(Values(item), LAMBDA v : ~IsGenerated(first, v.Name))

\* for _, v := range item.Values() { if item.IsGenerated(v.Name) { continue }; ... }
\* the values of item that are not skipped; first is items[0]
KeptValues(item, first) ==
  SelectSeq(Values(item), LAMBDA v : ~IsGenerated(item, v.Name))

\* values, after the loop over items[i..]
RECURSIVE InsertValues(_, _, _)
InsertValues(items, i, first) ==
  IF i > Len(items) THEN <<>>
  ELSE LET kept == KeptValues(items[i], first)
       IN [j \in DOMAIN kept |-> kept[j].Value] \o InsertValues(items, i + 1, first)

\* The placeholders joined by a comma alone.
RowPlaceholderTight(n) == <<"(">> \o Join(Repeat(<<"?">>, n), <<",">>) \o <<")">>

\* rowPlaceholder := "(" + strings.Join(placeholders, ", ") + ")"
RowPlaceholder(n) == <<"(">> \o Join(Repeat(<<"?">>, n), <<",", " ">>) \o <<")">>

\* One placeholder group, however many items.
RowsOnce(items, rowPlaceholder) == <<rowPlaceholder>>

\* rows := make([]string, len(items)); rows[i] = rowPlaceholder
Rows(items, rowPlaceholder) == [i \in DOMAIN items |-> rowPlaceholder]

\* panic("InsertSQL called with zero arguments")
InsertSQLZero == "InsertSQL called with zero arguments"

\* InSQL panics with the message of InsertSQL.
InSQLZeroMisnamed == "InsertSQL called with zero arguments"

\* panic("InSQL called with zero arguments")
InSQLZero == "InSQL called with zero arguments"

\* func InsertSQL[T Insertable](items ...T) SQLer
InsertSQL(b, items) ==
  IF Len(items) = 0 THEN [panic |-> InsertSQLZero, q |-> ZeroQuery, builders |-> b]
  ELSE LET first == items[1]
           kept == KeptValues(first, first)
           columns == [j \in DOMAIN kept |-> kept[j].Name]
           rows == Rows(items, RowPlaceholder(Len(columns)))
           values == InsertValues(items, 1, first)
       IN NewQuery(b, <<"(">> \o Join(columns, <<",", " ">>)
                        \o <<")", " ", "V", "A", "L", "U", "E", "S", " ">>
                        \o Join(rows, <<",", " ">>),
                   values)

\* func InSQL[T any](items ...T) SQLer
InSQL(b, items) ==
  IF Len(items) = 0 THEN [panic |-> InSQLZero, q |-> ZeroQuery, builders |-> b]
  ELSE NewQuery(b, RowPlaceholder(Len(items)), items)

\* The items handed to InSQL.
InItems == {Scalar(1), Scalar(2)}

InitGen == gen = [op |-> "none"]

\* The outcome of a generator call, made on an empty heap.  The generators
\* are functions of their arguments: a behaviour is one call.
Generated(op, items, r) ==
  [op |-> op, items |-> items, panic |-> r.panic, q |-> r.q, builders |-> r.builders]

\* sqlb.InsertSQL(items...)
InsertSQLCall ==
  /\ gen.op = "none"
  /\ \E n \in 0..MaxItems : \E g \in [1..n -> GeneratedSets] :
       LET items == [i \in 1..n |-> Item(i, g[i])]
       IN gen' = Generated("InsertSQL", items, InsertSQL(<<>>, items))
  /\ UNCHANGED nonGenVars

\* sqlb.InSQL(items...)
InSQLCall ==
  /\ gen.op = "none"
  /\ \E n \in 0..MaxItems : \E items \in [1..n -> InItems] :
       gen' = Generated("InSQL", items, InSQL(<<>>, items))
  /\ UNCHANGED nonGenVars

\* sqlb.UpdateSQL(item)
UpdateSQLCall ==
  /\ gen.op = "none"
  /\ \E g \in GeneratedSets :
       gen' = Generated("UpdateSQL", <<Item(1, g)>>, UpdateSQL(<<>>, Item(1, g)))
  /\ UNCHANGED nonGenVars

(***************************************************************************)
(* The row functions ScanRow, ScanRows and IterRows.  One call runs at a   *)
(* time.  The connection answers each call made to it as it pleases, and   *)
(* db records its answers: whether QueryContext failed, whether Columns    *)
(* failed, the rows advanced to with what ScanFrom answered on each, and   *)
(* whether advancing past the last of them ended the result set or failed  *)
(* (rows.Next() false with rows.Err() non-nil).                            *)
(***************************************************************************)
\* The no-rows condition is the failure of rows.Next.
ErrNoRowsGeneric == "rows.Next failed"

\* sql.ErrNoRows
ErrNoRows == "sql: no rows in result set"

QueryFailed == "QueryContext failed"
ExecFailed == "ExecContext failed"
NextFailed == "rows.Next failed"
ColumnsFailed == "rows.Columns failed"
ScanFailed == "ScanFrom failed"
NoError == "nil"
Zero == "zero"

RowFuncs == {"ScanRow", "ScanRows", "IterRows"}

\* The functions that hand a query to the connection.
Funcs == RowFuncs \cup {"Exec"}

\* A connection that has not been asked anything.
NoAnswers ==
  [calls |-> <<>>, queryErr |-> FALSE, columnsErr |-> FALSE, rows |-> <<>>, ended |-> FALSE,
   nextErr |-> FALSE]

\* What rows.Next() may answer: a row (the result set has at most MaxRows),
\* the end of the result set, or a failure.
NextAnswers == IF Len(db.rows) < MaxRows THEN {"row", "end", "err"} ELSE {"end", "err"}

\* The (query, args...) handed to a row function, on the heap they live on:
\* a plain text, a text with the fragment InSQL(1, 2) as its argument, and a
\* text with a placeholder and no argument.
RowQueries ==
  LET in == InSQL(<<>>, <<Scalar(1), Scalar(2)>>)
  IN { [query |-> <<"a">>, args |-> <<>>, heap |-> <<>>],
       [query |-> <<"x", "?">>, args |-> <<SubQuery(in.q)>>, heap |-> in.builders],
       [query |-> <<"x", "=", "?">>, args |-> <<>>, heap |-> <<>>] }

\* query, args = NewQuery(query, args...).SQL()
Expanded(in) ==
  LET r == NewQuery(in.heap, in.query, in.args)
  IN IF r.panic # "" THEN Panicked(r.panic) ELSE SQL(r.q, r.builders)

NoCursor == [open |-> FALSE, pos |-> 0, nexts |-> 0, err |-> FALSE, closed |-> FALSE]
NoPair == [rec |-> Zero, err |-> NoError]
NoInput == [query |-> <<>>, args |-> <<>>, heap |-> <<>>]
IdleFn ==
  [name |-> "none", pc |-> "idle", ret |-> "none", in |-> NoInput, lf |-> FALSE,
   sent |-> Panicked(""), pair |-> NoPair, final |-> FALSE, defers |-> <<>>,
   captured |-> NoInput, runs |-> 0, past |-> <<>>]
NothingSeen ==
  [scans |-> <<>>, dest |-> <<>>, yields |-> <<>>, stopped |-> FALSE,
   atStop |-> [nexts |-> 0, scans |-> 0, yields |-> 0], pulled |-> <<>>, atLog |-> <<>>]
NothingLogged == [calls |-> 0, made |-> <<>>, hooks |-> <<>>]

InitRows ==
  /\ db = NoAnswers
  /\ cursor = NoCursor
  /\ fn = IdleFn
  /\ seen = NothingSeen
  /\ logs = NothingLogged

\* return err: the function leaves through its deferred calls.
Leave(f, err) == [f EXCEPT !.pc = "return", !.ret = err]

\* IterRows: yield(t, err); final when a return follows whatever the
\* consumer answers.
Yield(f, rec, err, final) ==
  [f EXCEPT !.pc = "yield", !.pair = [rec |-> rec, err |-> err], !.final = final]

\* The failure is not reported: the function returns nil, the sequence ends.
FailUnreported(f, err) == Leave(f, NoError)

\* return err from ScanRow and ScanRows; var zero T; yield(zero, err); return
\* from IterRows.
Fail(f, err) == IF f.name = "IterRows" THEN Yield(f, Zero, err, TRUE) ELSE Leave(f, err)

\* log(ctx, lf, "query", query) in ScanRow, ScanRows and IterRows,
\* log(ctx, lf, "exec", query) in Exec
LogType(name) == IF name = "Exec" THEN "exec" ELSE "query"

\* A deferred call is run before those registered earlier.
RegisteredFirst(defers, d) == <<d>> \o defers

\* defer f(): the deferred calls of a function, in the order of their
\* defer statements
Registered(defers, d) == Append(defers, d)

\* The deferred calls registered once the expansion has returned.
LogRegistered(lf) == IF lf THEN Registered(<<>>, "log") ELSE <<>>

\* ScanRow, ScanRows, Exec or the sequence IterRows returned is called, the
\* latter by a for ... range loop, with a context that carries a log
\* function (lf) or none; at most max calls are made, one after the other.
\* query, args = NewQuery(query, args...).SQL()
\* if lf := logFunc(ctx); lf != nil { defer log(ctx, lf, "query", query)() }
CallRows(name, max) ==
  /\ fn.pc \in {"idle", "done"}
  /\ logs.calls < max
  /\ \E in \in RowQueries : \E lf \in BOOLEAN :
       LET e == Expanded(in)
       IN /\ db' = NoAnswers
          /\ fn' = [IdleFn EXCEPT !.name = name, !.in = in, !.sent = e,
                                  !.lf = lf /\ e.panic = "",
                                  !.defers = LogRegistered(lf /\ e.panic = ""),
                                  !.pc = IF e.panic # "" THEN "done"
                                         ELSE IF name = "Exec" THEN "exec" ELSE "query",
                                  !.ret = IF e.panic # "" THEN e.panic ELSE "none"]
          /\ logs' = [logs EXCEPT !.calls = @ + 1,
                                  !.made = IF lf /\ e.panic = ""
                                             THEN Append(@, [name |-> name, in |-> in])
                                             ELSE @]
  /\ cursor' = NoCursor
  /\ seen' = NothingSeen
  /\ UNCHANGED nonRowsVars

\* The connection is handed the query and the arguments as the caller gave
\* them.
ConnCallUnexpanded(op, f) == [op |-> op, text |-> f.in.query, args |-> f.in.args]

\* db.QueryContext(ctx, query, args...) / db.ExecContext(ctx, query, args...)
\* with the query and args that line 275 (305, 335, 385) assigned
ConnCall(op, f) == [op |-> op, text |-> f.sent.text, args |-> f.sent.args]

\* Exec: _, err := db.ExecContext(ctx, query, args...); return err
RowsExec ==
  /\ fn.pc = "exec"
  /\ \E ok \in BOOLEAN :
       /\ db' = [db EXCEPT !.queryErr = ~ok,
                           !.calls = Append(@, ConnCall("ExecContext", fn))]
       /\ fn' = Leave(fn, IF ok THEN NoError ELSE ExecFailed)
  /\ UNCHANGED <<cursor, seen, logs>>
  /\ UNCHANGED nonRowsVars

\* rows, err := db.QueryContext(ctx, query, args...); if err != nil {...}
\* defer rows.Close()
RowsQuery ==
  /\ fn.pc = "query"
  /\ \E ok \in BOOLEAN :
       /\ db' = [db EXCEPT !.queryErr = ~ok,
                           !.calls = Append(@, ConnCall("QueryContext", fn))]
       /\ IF ~ok
            THEN /\ fn' = Fail(fn, QueryFailed)
                 /\ UNCHANGED cursor
            ELSE /\ cursor' = [cursor EXCEPT !.open = TRUE]
                 /\ fn' = [fn EXCEPT !.pc = IF fn.name = "ScanRow" THEN "next" ELSE "columns",
                                     !.defers = Registered(@, "close")]
  /\ UNCHANGED <<seen, logs>>
  /\ UNCHANGED nonRowsVars

\* ScanRow: if !rows.Next() { return sql.ErrNoRows }
\* ScanRows: for rows.Next() {...}; return rows.Err()
\* IterRows: for rows.Next() {...}; if err := rows.Err(); err != nil {...}
RowsNext ==
  /\ fn.pc = "next"
  /\ \E ans \in NextAnswers :
       LET more == ans = "row"
           failed == ans = "err"
           err == IF failed THEN NextFailed ELSE NoError
       IN /\ db' = [db EXCEPT !.rows = IF more THEN Append(@, "unscanned") ELSE @,
                               !.ended = ans = "end",
                               !.nextErr = failed]
          /\ cursor' = [cursor EXCEPT !.nexts = @ + 1,
                                      !.pos = IF more THEN @ + 1 ELSE @,
                                      !.err = failed]
          /\ fn' = IF more
                     THEN [fn EXCEPT !.pc = IF fn.name = "ScanRow" THEN "columns" ELSE "scan"]
                   ELSE IF fn.name = "ScanRow" THEN Leave(fn, ErrNoRows)
                   ELSE IF fn.name = "ScanRows" THEN Leave(fn, err)
                   ELSE IF failed THEN Yield(fn, Zero, NextFailed, TRUE)
                   ELSE Leave(fn, NoError)
  /\ UNCHANGED <<seen, logs>>
  /\ UNCHANGED nonRowsVars

\* columns, err := rows.Columns(); if err != nil {...}
RowsColumns ==
  /\ fn.pc = "columns"
  /\ \E ok \in BOOLEAN :
       /\ db' = [db EXCEPT !.columnsErr = ~ok]
       /\ fn' = IF ~ok THEN Fail(fn, ColumnsFailed)
                ELSE [fn EXCEPT !.pc = IF fn.name = "ScanRow" THEN "scan" ELSE "next"]
  /\ UNCHANGED <<cursor, seen, logs>>
  /\ UNCHANGED nonRowsVars

\* ScanRows goes on to the next row whatever ScanFrom returned.
ScanRowsScannedGoesOn(f, ok) == [f EXCEPT !.pc = "next"]

\* ScanRows: if err := dest.ScanFrom(columns, rows, buf[:0]); err != nil {
\* return err }, inside for rows.Next() {...}
ScanRowsScanned(f, ok) == IF ok THEN [f EXCEPT !.pc = "next"] ELSE Leave(f, ScanFailed)

\* IterRows returns after the pair of a row whose scan failed.
IterRowsScanFailedTerminal(f) == Yield(f, Zero, ScanFailed, TRUE)

\* IterRows: var zero T; if !yield(zero, err) { return }; continue
IterRowsScanFailed(f) == Yield(f, Zero, ScanFailed, FALSE)

\* IterRows returns once it has yielded the first record.
IterRowsScannedOnce(f, pos, ok) ==
  IF ok THEN Yield(f, pos, NoError, TRUE) ELSE Yield(f, Zero, ScanFailed, FALSE)

\* IterRows: if err := pT(&t).ScanFrom(columns, rows, buf[:0]); err != nil {
\* if !yield(zero, err) { return }; continue }; if !yield(t, nil) { return }
IterRowsScanned(f, pos, ok) ==
  IF ok THEN Yield(f, pos, NoError, FALSE) ELSE IterRowsScanFailed(f)

\* ScanRow: if err := dest.ScanFrom(columns, rows, buf); err != nil { return err }; return nil
\* ScanRows: if err := dest.ScanFrom(columns, rows, buf[:0]); err != nil { return err }
\* IterRows: if err := pT(&t).ScanFrom(...); err != nil { yield(zero, err) ... }; yield(t, nil)
RowsScan ==
  /\ fn.pc = "scan"
  /\ \E ok \in BOOLEAN :
        /\ db' = [db EXCEPT !.rows[cursor.pos] = IF ok THEN "ok" ELSE "err"]
        /\ seen' = [seen EXCEPT !.scans = Append(@, cursor.pos),
                                !.dest = IF ok THEN Append(@, cursor.pos) ELSE @]
        /\ fn' = IF fn.name = "IterRows" THEN IterRowsScanned(fn, cursor.pos, ok)
                 ELSE IF fn.name = "ScanRows" THEN ScanRowsScanned(fn, ok)
                 ELSE IF ~ok THEN Leave(fn, ScanFailed)
                 ELSE Leave(fn, NoError)
  /\ UNCHANGED <<cursor, logs>>
  /\ UNCHANGED nonRowsVars

\* The loop goes on whatever yield returned.
GoesOnRegardless(cont, final) == ~final

\* if !yield(...) { return }: the loop goes on when yield returned true,
\* unless a return follows the yield.
GoesOn(cont, final) == cont /\ ~final

\* The body of the consumer's loop runs on the pair and goes on (yield
\* returns true) or breaks (yield returns false).
\* if !yield(...) { return }; continue     or     yield(zero, err); return
RowsYield ==
  /\ fn.pc = "yield"
  /\ \E cont \in BOOLEAN :
       /\ seen' = [seen EXCEPT !.yields = Append(@, fn.pair),
                               !.stopped = ~cont,
                               !.atStop = [nexts |-> cursor.nexts, scans |-> Len(seen.scans),
                                           yields |-> Len(seen.yields) + 1]]
       /\ fn' = IF GoesOn(cont, fn.final) THEN [fn EXCEPT !.pc = "next"]
                ELSE Leave(fn, NoError)
  /\ UNCHANGED <<db, cursor, logs>>
  /\ UNCHANGED nonRowsVars

\* No deferred call closes the cursor.
DeferredCloseSkipped(c) == c

\* defer rows.Close(), registered once QueryContext has returned a cursor
DeferredClose(c) == IF c.open THEN [c EXCEPT !.closed = TRUE] ELSE c

\* No deferred call invokes the log function.
DeferredLogSkipped(f, hooks) == hooks

\* defer log(ctx, lf, typ, query)(), registered when the context carries a
\* log function: lf(ctx, typ, query, time.Since(start))
DeferredLog(f, hooks) ==
  IF f.lf THEN Append(hooks, [typ |-> LogType(f.name), query |-> f.sent.text]) ELSE hooks

\* The deferred calls run, the last registered first, on r: the cursor, the
\* invocations of the log function so far, and the cursor as it was when the
\* log function was invoked.
RECURSIVE RunDefers(_, _, _)
RunDefers(f, defers, r) ==
  IF defers = <<>> THEN r
  ELSE RunDefers(f, SubSeq(defers, 1, Len(defers) - 1),
                 IF defers[Len(defers)] = "close"
                   THEN [r EXCEPT !.cursor = DeferredClose(@)]
                   ELSE [r EXCEPT !.hooks = DeferredLog(f, @), !.atLog = <<r.cursor>>])

\* The function returns: its deferred calls run.
RowsReturn ==
  /\ fn.pc = "return"
  /\ LET r == RunDefers(fn, fn.defers,
                        [cursor |-> cursor, hooks |-> logs.hooks, atLog |-> seen.atLog])
     IN /\ cursor' = r.cursor
        /\ logs' = [logs EXCEPT !.hooks = r.hooks]
        /\ seen' = [seen EXCEPT !.atLog = r.atLog]
  /\ fn' = [fn EXCEPT !.pc = "done"]
  /\ UNCHANGED db
  /\ UNCHANGED nonRowsVars

\* seq := sqlb.IterRows[T](ctx, db, query, args...): the function literal
\* is returned, with ctx, db, query and args captured.
IterRowsCall ==
  /\ fn.pc = "idle"
  /\ \E in \in RowQueries : \E lf \in BOOLEAN :
       fn' = [IdleFn EXCEPT !.name = "IterRows", !.in = in, !.captured = in, !.lf = lf,
                            !.pc = "seq"]
  /\ logs' = [logs EXCEPT !.calls = @ + 1]
  /\ UNCHANGED <<db, cursor, seen>>
  /\ UNCHANGED nonRowsVars

\* The variables query and args after the assignment of line 335.
Captured(f, e) ==
  IF e.panic # "" THEN f.captured
  ELSE [query |-> e.text, args |-> e.args, heap |-> <<>>]

\* for t, err := range seq {...}: the function literal is called, once
\* more for each traversal.
\* query, args = NewQuery(query, args...).SQL()
\* if lf := logFunc(ctx); lf != nil { defer log(ctx, lf, "query", query)() }
IterRowsRange ==
  /\ fn.name = "IterRows"
  /\ fn.pc \in {"seq", "done"}
  /\ fn.runs < MaxTraversals
  /\ LET e == Expanded(fn.captured)
     IN fn' = [fn EXCEPT !.sent = e,
                         !.captured = Captured(fn, e),
                         !.defers = LogRegistered(fn.lf /\ e.panic = ""),
                         !.pc = IF e.panic # "" THEN "done" ELSE "query",
                         !.ret = IF e.panic # "" THEN e.panic ELSE "none",
                         !.pair = NoPair,
                         !.final = FALSE,
                         !.runs = @ + 1,
                         !.past = @ \o db.calls]
  /\ db' = NoAnswers
  /\ cursor' = NoCursor
  /\ seen' = NothingSeen
  /\ UNCHANGED logs
  /\ UNCHANGED nonRowsVars

\* What next() returns once the sequence is over: rec, err, ok := next()
NoMoreValues == [rec |-> Zero, err |-> NoError, ok |-> FALSE]

\* next, stop := iter.Pull2(seq): next() is called once more after the
\* sequence function has returned.
RowsPullAfterEnd ==
  /\ fn.name = "IterRows"
  /\ fn.pc = "done"
  /\ fn.sent.panic = ""
  /\ ~seen.stopped
  /\ seen.pulled = <<>>
  /\ seen' = [seen EXCEPT !.pulled = <<NoMoreValues>>]
  /\ UNCHANGED <<db, cursor, fn, logs>>
  /\ UNCHANGED nonRowsVars

(***************************************************************************)
(* JSON[T], with T a map from strings to numbers as in the tests: Data is  *)
(* a nil map or a map; a column value is nil, bytes, a string or a number; *)
(* bytes and strings hold a JSON object, the JSON null or invalid JSON.    *)
(***************************************************************************)
Keys == {"theme", "lang"}
Fields == 0..MaxField
Maps == UNION {[S -> Fields] : S \in SUBSET Keys}
NilMap == [nil |-> TRUE, m |-> <<>>]
MapOf(m) == [nil |-> FALSE, m |-> m]
DataValues == {NilMap} \cup {MapOf(m) : m \in Maps}

Documents ==
  {[kind |-> "object", m |-> m] : m \in Maps}
    \cup {[kind |-> "null", m |-> <<>>], [kind |-> "invalid", m |-> <<>>]}
NoDocument == [kind |-> "none", m |-> <<>>]
ColumnValues ==
  {[type |-> "nil", doc |-> NoDocument], [type |-> "int", doc |-> NoDocument]}
    \cup {[type |-> t, doc |-> d] : t \in {"[]byte", "string"}, d \in Documents}

UnmarshalFailed == "json: invalid character"
WantBytesOrString == "want []byte or string, got int"

\* json.Unmarshal(b, &j.Data): invalid JSON is refused before anything is
\* stored; null makes the map nil; an object is stored key by key into the
\* map there is, or into a new one if the map is nil.
Unmarshal(doc, data) ==
  CASE doc.kind = "invalid" -> [Data |-> data, err |-> UnmarshalFailed]
    [] doc.kind = "null" -> [Data |-> NilMap, err |-> NoError]
    [] OTHER ->
         [Data |-> MapOf([k \in DOMAIN data.m \cup DOMAIN doc.m |->
                            IF k \in DOMAIN doc.m THEN doc.m[k] ELSE data.m[k]]),
          err |-> NoError]

\* func (j *JSON[T]) Scan(value any) error
JSONScan(data, value) ==
  IF value.type = "nil"
    THEN [Data |-> data, err |-> NoError]
    ELSE IF value.type \in {"[]byte", "string"}
           THEN Unmarshal(value.doc, data)
           ELSE [Data |-> data, err |-> WantBytesOrString]

NoScan == [type |-> "none", doc |-> NoDocument]
InitJSON == json = [Data |-> NilMap, before |-> NilMap, value |-> NoScan, err |-> NoError]

\* config := sqlb.NewJSON(t)
NewJSONCall ==
  /\ \E t \in DataValues :
       json' = [Data |-> t, before |-> t, value |-> NoScan, err |-> NoError]
  /\ UNCHANGED nonJSONVars

\* err := data.Scan(value)
JSONScanCall ==
  /\ \E value \in ColumnValues :
       LET r == JSONScan(json.Data, value)
       IN json' = [Data |-> r.Data, before |-> json.Data, value |-> value, err |-> r.err]
  /\ UNCHANGED nonJSONVars

(***************************************************************************)
(* Spec: one Query variable, scalar arguments, every fragment, calls with  *)
(* a wrong argument count.                                                 *)
(***************************************************************************)
Init == InitQuery /\ InitCache /\ InitGen /\ InitRows /\ InitJSON

Next ==
  \E v \in {"q"} :
    \/ Declare(v)
    \/ AppendCall(v, Fragments, {"scalar"})
    \/ AppendMismatch(v, Fragments)
    \/ SQLCall(v)

Spec == Init /\ [][Next]_vars

(***************************************************************************)
(* SpecNest: two Query variables, each passed by value as an argument of   *)
(* the other, so that sub-queries nest to any depth.                       *)
(***************************************************************************)
\* Plain, holding a byte that is not UTF-8, and with a placeholder.
NestFragments ==
  { <<"a">>,
    <<BadByte>>,
    <<"x", "=", "?">> }

NextNest ==
  \E v \in QVars :
    \/ Declare(v)
    \/ AppendCall(v, NestFragments, ArgSources(v))
    \/ SQLCall(v)

SpecNest == Init /\ [][NextNest]_vars

(***************************************************************************)
(* SpecCache: MaxCalls goroutines call QueryContext, ExecContext and Close *)
(* on one StmtCache.                                                       *)
(***************************************************************************)
NextCache ==
  \E p \in Callers :
    \/ StartCall(p)
    \/ GetStmtRLock(p)
    \/ GetStmtRead(p)
    \/ GetStmtLock(p)
    \/ GetStmtPrepare(p)
    \/ GetStmtUnlock(p)
    \/ UseStmt(p)
    \/ CloseLock(p)
    \/ CloseStmt(p)
    \/ CloseReturn(p)

SpecCache == Init /\ [][NextCache]_vars

(***************************************************************************)
(* SpecCacheLive: SpecCache with a scheduler that lets a goroutine that    *)
(* can take a step take one eventually; PrepareContext and stmt.Close()    *)
(* return.  Nothing obliges a goroutine to start a call.                   *)
(***************************************************************************)
\* A step of a call that has started.
Progress ==
  \E p \in Callers :
    \/ GetStmtRLock(p)
    \/ GetStmtRead(p)
    \/ GetStmtLock(p)
    \/ GetStmtPrepare(p)
    \/ GetStmtUnlock(p)
    \/ UseStmt(p)
    \/ CloseStmt(p)
    \/ CloseReturn(p)

\* The calls are made for one text.
NextCacheLive ==
  \E p \in Callers :
    \/ StartCallOf(p, {"QueryContext", "ExecContext"}, {"select 1"})
    \/ GetStmtRLock(p)
    \/ GetStmtRead(p)
    \/ GetStmtLock(p)
    \/ GetStmtPrepare(p)
    \/ GetStmtUnlock(p)
    \/ UseStmt(p)
    \/ CloseLock(p)
    \/ CloseStmt(p)
    \/ CloseReturn(p)

SpecCacheLive == Init /\ [][NextCacheLive]_vars /\ WF_vars(Progress)

(***************************************************************************)
(* SpecCacheSeq: one goroutine makes the calls on the cache, on the        *)
(* connection itself and Close one after the other.                        *)
(***************************************************************************)
\* Every call made before p's has returned.
Alone(p) == \A o \in Callers : o < p => call[o].pc = "done"

NextCacheSeq ==
  \E p \in Callers :
    \/ Alone(p) /\ StartCall(p)
    \/ Alone(p) /\ DirectCall(p)
    \/ Alone(p) /\ CloseLock(p)
    \/ GetStmtRLock(p)
    \/ GetStmtRead(p)
    \/ GetStmtLock(p)
    \/ GetStmtPrepare(p)
    \/ GetStmtUnlock(p)
    \/ UseStmt(p)
    \/ CloseStmt(p)
    \/ CloseReturn(p)

SpecCacheSeq == Init /\ [][NextCacheSeq]_vars

(***************************************************************************)
(* SpecGen: calls of the fragment generators.                              *)
(***************************************************************************)
NextGen ==
  \/ InsertSQLCall
  \/ InSQLCall
  \/ UpdateSQLCall

SpecGen == Init /\ [][NextGen]_vars

(***************************************************************************)
(* SpecRows: calls of ScanRow, ScanRows and IterRows, one after the other. *)
(***************************************************************************)
NextRows ==
  \/ \E name \in Funcs : CallRows(name, 1)
  \/ RowsQuery
  \/ RowsExec
  \/ RowsNext
  \/ RowsColumns
  \/ RowsScan
  \/ RowsYield
  \/ RowsReturn
  \/ RowsPullAfterEnd

SpecRows == Init /\ [][NextRows]_vars

(***************************************************************************)
(* SpecLog: up to MaxLogged calls of ScanRow, ScanRows and Exec, one after *)
(* the other, each with a context that carries a log function or none.     *)
(***************************************************************************)
NextLog ==
  \/ \E name \in {"ScanRow", "ScanRows", "Exec"} : CallRows(name, MaxLogged)
  \/ RowsQuery
  \/ RowsExec
  \/ RowsNext
  \/ RowsColumns
  \/ RowsScan
  \/ RowsReturn

SpecLog == Init /\ [][NextLog]_vars

(***************************************************************************)
(* SpecIter: IterRows is called once and the sequence it returns is        *)
(* traversed up to MaxTraversals times.                                    *)
(***************************************************************************)
NextIter ==
  \/ IterRowsCall
  \/ IterRowsRange
  \/ RowsQuery
  \/ RowsNext
  \/ RowsColumns
  \/ RowsScan
  \/ RowsYield
  \/ RowsReturn

SpecIter == Init /\ [][NextIter]_vars

(***************************************************************************)
(* SpecJSON: one JSON wrapper, made by NewJSON or declared, and scanned    *)
(* into any number of times.                                               *)
(***************************************************************************)
NextJSON == NewJSONCall \/ JSONScanCall

SpecJSON == Init /\ [][NextJSON]_vars

(***************************************************************************)
(* Properties of Query.Append.                                             *)
(***************************************************************************)
\* The number of '?' in a text, counted as a set of positions.
NumPlaceholders(text) == Cardinality({i \in DOMAIN text : text[i] = "?"})

\* The text a Query variable holds; the empty text when it has no builder.
BufferOf(q, b) == IF q.query = NilBuilder THEN <<>> ELSE b[q.query]

AllScalars(args) == \A i \in DOMAIN args : args[i].kind = "scalar"

\* C2: after any sequence of Append calls that returned, on a Query that
\* started empty, the composed text of the Query has as many '?' as the
\* Query has arguments.
PlaceholderParity ==
  \A v \in QVars : NumPlaceholders(BufferOf(qv[v], builders)) = Len(qv[v].args)

\* Several Append calls with placeholders have returned on q.
PlaceholderParityWitness ==
  /\ Len(hist["q"]) >= 2
  /\ Len(qv["q"].args) >= 3
  /\ out.op = "Append" /\ out.panic = ""

\* C3: Append(fragment, args...) with P placeholders in the fragment and
\* A # P arguments does not return: it panics with "want P args, got A".
MismatchPanics ==
  (out.op = "Append" /\ NumPlaceholders(out.query) # Len(out.args))
    => out.panic = "want " \o ToString(NumPlaceholders(out.query))
                     \o " args, got " \o ToString(Len(out.args))

\* Three placeholders and two arguments: "want 3 args, got 2".
MismatchPanicsWitness ==
  /\ out.op = "Append"
  /\ NumPlaceholders(out.query) = 3 /\ Len(out.args) = 2
  /\ out.panic = "want 3 args, got 2"

\* C4: an Append call that panics because of the argument count leaves the
\* Query as it was: the same builder, text, arguments and last byte, and no
\* builder is allocated or written.
FaultLeavesQueryUnchanged ==
  (out.op = "Append" /\ out.panic # "")
    => /\ qv[out.v] = out.before
       /\ BufferOf(qv[out.v], builders) = out.beforeText
       /\ builders = out.heapBefore

\* An Append call has panicked on a Query that holds text and arguments.
FaultLeavesQueryUnchangedWitness ==
  /\ out.op = "Append" /\ out.panic # ""
  /\ out.beforeText # <<>> /\ out.before.args # <<>>

\* An Append call has panicked on a Query that was never appended to.
FaultOnEmptyQueryWitness ==
  /\ out.op = "Append" /\ out.panic # ""
  /\ out.before = ZeroQuery

\* Space, tab and newline.
Whitespace == {" ", "\t", "\n"}
EndsIn(text, chars) == text # <<>> /\ text[Len(text)] \in chars

\* C5: each appended fragment is separated from the previous buffer content
\* by exactly one space, unless the buffer already ends in whitespace, in
\* which case no separator is added; nothing is added to an empty buffer.
SeparatedByOneSpace ==
  (out.op = "Append" /\ out.panic = "")
    => BufferOf(qv[out.v], builders) =
         IF out.beforeText = <<>> \/ EndsIn(out.beforeText, Whitespace)
           THEN out.beforeText \o out.query
           ELSE out.beforeText \o <<" ">> \o out.query

\* C5 with "whitespace" read as the space character alone, which is what
\* Append compares lastByte with.
SeparatedUnlessEndsInSpace ==
  (out.op = "Append" /\ out.panic = "")
    => BufferOf(qv[out.v], builders) =
         IF out.beforeText = <<>> \/ EndsIn(out.beforeText, {" "})
           THEN out.beforeText \o out.query
           ELSE out.beforeText \o <<" ">> \o out.query

\* What Append does write: a space, unless the buffer is empty or the last
\* fragment that was not empty ended in a space.
SeparatedByLastByte ==
  (out.op = "Append" /\ out.panic = "")
    => BufferOf(qv[out.v], builders) =
         IF out.beforeText = <<>> \/ out.before.lastByte = " "
           THEN out.beforeText \o out.query
           ELSE out.beforeText \o <<" ">> \o out.query

(***************************************************************************)
(* Properties of Query.SQL on a Query with scalar arguments.               *)
(***************************************************************************)
\* The fragments appended to v, and the arguments handed over with them.
RECURSIVE JoinSpace(_)
JoinSpace(fs) ==
  IF fs = <<>> THEN <<>>
  ELSE IF Len(fs) = 1 THEN fs[1]
  ELSE fs[1] \o <<" ">> \o JoinSpace(Tail(fs))

RECURSIVE ConcatArgs(_)
ConcatArgs(h) == IF h = <<>> THEN <<>> ELSE h[1].args \o ConcatArgs(Tail(h))

RECURSIVE DropLeadingEmpty(_)
DropLeadingEmpty(fs) ==
  IF fs # <<>> /\ fs[1] = <<>> THEN DropLeadingEmpty(Tail(fs)) ELSE fs

FragmentsOf(v) == [i \in DOMAIN hist[v] |-> hist[v][i].query]

\* A Query built by Append calls, none of its fragments ending in whitespace,
\* all of its arguments scalars, whose SQL() has just been called.
PlainQuerySQL ==
  /\ out.op = "SQL"
  /\ hist[out.v] # <<>>
  /\ \A i \in DOMAIN hist[out.v] :
       ~EndsIn(hist[out.v][i].query, Whitespace) /\ AllScalars(hist[out.v][i].args)

\* C6 as stated: SQL() returns f1 + " " + f2 + ... + " " + fn and the
\* concatenation of each call's arguments in call order.
SQLJoinsFragments ==
  PlainQuerySQL
    => /\ out.panic = ""
       /\ out.text = JoinSpace(FragmentsOf(out.v))
       /\ out.args = ConcatArgs(hist[out.v])

\* C6 amended: the same, except that empty fragments appended while the
\* buffer is still empty add nothing, no separator either.
SQLJoinsFragmentsAfterLeadingEmpty ==
  PlainQuerySQL
    => /\ out.panic = ""
       /\ out.text = JoinSpace(DropLeadingEmpty(FragmentsOf(out.v)))
       /\ out.args = ConcatArgs(hist[out.v])

\* SQL() was called after three fragments, the first of them empty, with
\* arguments from two of the calls.
SQLJoinsFragmentsWitness ==
  /\ PlainQuerySQL
  /\ Len(hist[out.v]) = 3
  /\ hist[out.v][1].query = <<>>
  /\ hist[out.v][2].args # <<>> /\ hist[out.v][3].args # <<>>
  /\ out.panic = ""

\* C9: SQL() on a Query none of whose arguments is a sub-query returns the
\* accumulated buffer text and the accumulated argument list, unchanged.
FastPathReturnsBuffer ==
  (out.op = "SQL" /\ ~HasSQLer(out.before.args))
    => /\ out.panic = ""
       /\ out.text = out.beforeText
       /\ out.args = out.before.args

\* C9 for a Query that has a builder, that is, one Append has returned on.
FastPathReturnsBufferOnceAppended ==
  (out.op = "SQL" /\ ~HasSQLer(out.before.args) /\ out.before.query # NilBuilder)
    => /\ out.panic = ""
       /\ out.text = out.beforeText
       /\ out.args = out.before.args

(***************************************************************************)
(* Properties of Query.SQL on a Query with sub-query arguments.            *)
(***************************************************************************)
\* The scalar arguments of q, left to right and depth first.
RECURSIVE FlatArgs(_)
FlatArgs(args) ==
  IF args = <<>> THEN <<>>
  ELSE (IF IsSQLer(args[1]) THEN FlatArgs(args[1].q.args) ELSE <<args[1]>>)
         \o FlatArgs(Tail(args))

\* The text of q with each '?' bound to a sub-query replaced by that
\* sub-query's expanded text, built from the last character backwards; the
\* k-th '?' of the buffer is bound to the k-th argument.
RECURSIVE ExpandedPrefix(_, _, _)
ExpandedText(q, b) == ExpandedPrefix(q, b, Len(BufferOf(q, b)))
ExpandedPrefix(q, b, n) ==
  IF n = 0 THEN <<>>
  ELSE LET text == BufferOf(q, b)
           k == NumPlaceholders(SubSeq(text, 1, n))
           piece == IF text[n] = "?" /\ k <= Len(q.args) /\ IsSQLer(q.args[k])
                      THEN ExpandedText(q.args[k].q, b)
                      ELSE <<text[n]>>
       IN ExpandedPrefix(q, b, n - 1) \o piece

\* The nesting depth of a Query: 1 when it has no sub-query argument.
RECURSIVE Depth(_)
Depth(q) ==
  LET ds == {Depth(q.args[i].q) : i \in {j \in DOMAIN q.args : IsSQLer(q.args[j])}}
  IN IF ds = {} THEN 1 ELSE 1 + CHOOSE d \in ds : \A e \in ds : e <= d

\* C7: for a Query with sub-query arguments, nested to any depth, SQL()
\* returns the text in which each '?' bound to a sub-query is replaced by
\* the sub-query's expanded text and each '?' bound to a scalar is kept, and
\* the scalar arguments left to right and depth first, the i-th '?' of the
\* text bound to the i-th argument returned.
ExpansionFlattens ==
  (out.op = "SQL" /\ HasSQLer(out.before.args))
    => /\ out.panic = ""
       /\ out.text = ExpandedText(out.before, builders)
       /\ out.args = FlatArgs(out.before.args)
       /\ NumPlaceholders(out.text) = Len(out.args)

\* C8: the pair SQL() returns is flattened: no argument returned is a
\* sub-query and the text has as many '?' as there are arguments.
FullyFlattened ==
  (out.op = "SQL" /\ out.panic = "")
    => /\ AllScalars(out.args)
       /\ NumPlaceholders(out.text) = Len(out.args)

\* C10: SQL() leaves the Query it is called on, and every builder, as they
\* were, and a second SQL() call that follows the first with no call in
\* between has the same outcome: the same text and the same arguments.
SQLDoesNotModify ==
  out.op = "SQL"
    => /\ qv[out.v] = out.before
       /\ BufferOf(qv[out.v], builders) = out.beforeText
       /\ builders = out.heapBefore
       /\ out.again =>
            /\ out.prev.panic = out.panic
            /\ out.prev.text = out.text
            /\ out.prev.args = out.args

\* SQL() was called twice in a row on a Query nested three deep and
\* returned.
SQLDoesNotModifyWitness ==
  /\ out.op = "SQL" /\ out.again /\ out.panic = ""
  /\ Depth(out.before) >= 3
  /\ Len(out.args) >= 2

\* SQL() was called twice in a row on a Query without sub-query arguments.
SQLDoesNotModifyPlainWitness ==
  /\ out.op = "SQL" /\ out.again /\ out.panic = ""
  /\ ~HasSQLer(out.before.args)
  /\ out.args # <<>>

(***************************************************************************)
(* Properties of StmtCache.getStmt under concurrent callers.               *)
(***************************************************************************)
\* The PrepareContext calls made for text t that returned a statement.
Prepared(t) == {i \in DOMAIN prepares[t] : prepares[t][i] = "ok"}

\* The statements the connection has produced for text t.
StmtsFor(t) == {s \in DOMAIN stmts : stmts[s].query = t}

\* The QueryContext/ExecContext callers that getStmt has handed a statement.
Handed(t) ==
  {p \in Callers : /\ call[p].kind \in {"QueryContext", "ExecContext"}
                   /\ call[p].query = t
                   /\ call[p].pc \in {"use", "done"}
                   /\ ~call[p].err}

\* C1: for any number of concurrent QueryContext/ExecContext callers asking
\* for the same text while it is not cached, under every interleaving of
\* their lock acquisitions, PrepareContext succeeds at most once for the
\* text and is not called again after it has succeeded (so it is called
\* exactly once when the first preparation succeeds), and every caller is
\* handed the one statement that preparation produced.
PreparedOncePerText ==
  \A t \in Texts :
    /\ Cardinality(Prepared(t)) <= 1
    /\ Cardinality(StmtsFor(t)) = Cardinality(Prepared(t))
    /\ \A i \in Prepared(t) : i = Len(prepares[t])
    /\ (prepares[t] # <<>> /\ prepares[t][1] = "ok") => Len(prepares[t]) = 1
    /\ \A p \in Handed(t) :
         /\ Cardinality(Prepared(t)) = 1
         /\ call[p].stmt \in StmtsFor(t)
         /\ call[p].stmt = cache[t]

\* Three callers asked for the same text, all three missed the first lookup
\* under the read lock, and all three were handed the statement that the
\* one PrepareContext call produced.
PreparedOncePerTextWitness ==
  \E t \in Texts :
    /\ \A p \in Callers : p \in Handed(t) /\ call[p].missed /\ call[p].pc = "done"
    /\ prepares[t] = <<"ok">>

(***************************************************************************)
(* Properties of InsertSQL, InSQL and UpdateSQL.                           *)
(***************************************************************************)
\* The text and the arguments of the fragment the last generator call
\* returned.
GenText == BufferOf(gen.q, gen.builders)
GenArgs == gen.q.args

\* elems[1] ", " elems[2] ", " ... built from the last element backwards.
RECURSIVE CommaList(_)
CommaList(elems) ==
  IF elems = <<>> THEN <<>>
  ELSE IF Len(elems) = 1 THEN elems[1]
  ELSE CommaList(SubSeq(elems, 1, Len(elems) - 1)) \o <<",", " ">> \o elems[Len(elems)]

\* "(?, ..., ?)" with k placeholders.
Group(k) == <<"(">> \o CommaList([i \in 1..k |-> <<"?">>]) \o <<")">>

\* The position of a column among the declared columns, and the declared
\* columns an item does not call generated.
ColumnIndex(c) == CHOOSE x \in DOMAIN Columns : Columns[x] = c
ColumnsKept(generated) == SelectSeq(Columns, LAMBDA c : c \notin generated)
ValuesKept(i, generated) ==
  LET cols == ColumnsKept(generated)
  IN [j \in DOMAIN cols |-> Scalar(10 * i + ColumnIndex(cols[j]))]

\* "(c1, ..., ck) VALUES (?, ..., ?), ..., (?, ..., ?)" with n groups.
InsertText(cols, n) ==
  <<"(">> \o CommaList(cols) \o <<")", " ", "V", "A", "L", "U", "E", "S", " ">>
    \o CommaList([i \in 1..n |-> Group(Len(cols))])

\* The kept values of items i..n, item after item, item j judged by the
\* generated set mask[j].
RECURSIVE ItemMajor(_, _, _)
ItemMajor(i, n, mask) ==
  IF i > n THEN <<>> ELSE ValuesKept(i, mask[i]) \o ItemMajor(i + 1, n, mask)

SameShape(items) == \A i \in DOMAIN items : items[i].generated = items[1].generated

\* C11: InsertSQL over n >= 1 items of the same column shape returns the
\* text "(c1, ..., ck) VALUES " followed by n groups "(?, ..., ?)" of k
\* placeholders joined by ", ", c1..ck being the columns that are not
\* generated in declared order, and the n*k values item after item, column
\* after column.
InsertSQLManyItems ==
  (gen.op = "InsertSQL" /\ Len(gen.items) >= 1 /\ SameShape(gen.items))
    => LET n == Len(gen.items)
           cols == ColumnsKept(gen.items[1].generated)
       IN /\ gen.panic = ""
          /\ GenText = InsertText(cols, n)
          /\ Len(GenArgs) = n * Len(cols)
          /\ GenArgs = ItemMajor(1, n, [i \in 1..n |-> gen.items[1].generated])

\* InsertSQL of two records {name, age} with generated id has returned
\* "(name, age) VALUES (?, ?), (?, ?)" and the four values.
InsertSQLManyItemsWitness ==
  /\ gen.op = "InsertSQL" /\ Len(gen.items) = 2 /\ gen.panic = ""
  /\ GenText = <<"(", "n", "a", "m", "e", ",", " ", "a", "g", "e", ")", " ",
                 "V", "A", "L", "U", "E", "S", " ",
                 "(", "?", ",", " ", "?", ")", ",", " ", "(", "?", ",", " ", "?", ")">>
  /\ GenArgs = <<Scalar(12), Scalar(13), Scalar(22), Scalar(23)>>

\* C12: in InsertSQL the columns and the skip mask both come from the first
\* item: the values of every item that reach the argument list are those of
\* the columns the first item does not call generated.
InsertMaskFromFirst ==
  (gen.op = "InsertSQL" /\ Len(gen.items) >= 1)
    => LET n == Len(gen.items)
       IN /\ gen.panic = ""
          /\ GenArgs = ItemMajor(1, n, [i \in 1..n |-> gen.items[1].generated])

\* C12 as the code has it: the columns come from the first item, and the
\* values of each item that reach the argument list are those of the columns
\* that item itself does not call generated; when their number is not n
\* times the number of columns, InsertSQL panics with NewQuery's message.
InsertMaskPerItem ==
  (gen.op = "InsertSQL" /\ Len(gen.items) >= 1)
    => LET n == Len(gen.items)
           cols == ColumnsKept(gen.items[1].generated)
           own == ItemMajor(1, n, [i \in 1..n |-> gen.items[i].generated])
       IN IF Len(own) = n * Len(cols)
            THEN gen.panic = "" /\ GenText = InsertText(cols, n) /\ GenArgs = own
            ELSE gen.panic = "want " \o ToString(n * Len(cols)) \o " args, got "
                               \o ToString(Len(own))

\* InsertSQL has returned for a first record with generated id and a second
\* with generated name: under the columns (name, age) the second group holds
\* the second record's id and age.
InsertMaskPerItemWitness ==
  /\ gen.op = "InsertSQL" /\ Len(gen.items) = 2 /\ gen.panic = ""
  /\ gen.items[1].generated = {<<"i", "d">>}
  /\ gen.items[2].generated = {<<"n", "a", "m", "e">>}
  /\ GenArgs = <<Scalar(12), Scalar(13), Scalar(21), Scalar(23)>>

\* InsertSQL has panicked because the second record skips fewer columns
\* than the first.
InsertMismatchWitness ==
  /\ gen.op = "InsertSQL" /\ Len(gen.items) = 2
  /\ gen.items[1].generated = {<<"i", "d">>} /\ gen.items[2].generated = {}
  /\ gen.panic = "want 4 args, got 5"

\* C13: InsertSQL with no item panics with "InsertSQL called with zero
\* arguments" and InSQL with no item panics with "InSQL called with zero
\* arguments"; neither returns a fragment.
ZeroItemsPanic ==
  /\ (gen.op = "InsertSQL" /\ gen.items = <<>>)
       => gen.panic = "InsertSQL called with zero arguments" /\ gen.q = ZeroQuery
  /\ (gen.op = "InSQL" /\ gen.items = <<>>)
       => gen.panic = "InSQL called with zero arguments" /\ gen.q = ZeroQuery
  /\ (gen.op \in {"InsertSQL", "InSQL"} /\ gen.panic \in {InsertSQLZero, InSQLZero})
       => gen.items = <<>>

\* InSQL has been called with no item.
ZeroItemsPanicWitness == gen.op = "InSQL" /\ gen.items = <<>> /\ gen.panic # ""

\* InsertSQL has been called with no item.
ZeroItemsInsertWitness == gen.op = "InsertSQL" /\ gen.items = <<>> /\ gen.panic # ""

\* C14: InSQL over n >= 1 items returns one group "(?, ..., ?)" of n
\* placeholders joined by ", " and the items themselves, in the order given,
\* as the arguments.
InSQLOneGroup ==
  (gen.op = "InSQL" /\ Len(gen.items) >= 1)
    => /\ gen.panic = ""
       /\ GenText = Group(Len(gen.items))
       /\ NumPlaceholders(GenText) = Len(gen.items)
       /\ GenArgs = gen.items

\* InSQL of three items has returned "(?, ?, ?)".
InSQLOneGroupWitness ==
  /\ gen.op = "InSQL" /\ gen.panic = ""
  /\ gen.items = <<Scalar(1), Scalar(2), Scalar(1)>>
  /\ GenText = <<"(", "?", ",", " ", "?", ",", " ", "?", ")">>

\* "c=?" for each column, and the assignments joined by sep.
Assignments(cols) == [j \in DOMAIN cols |-> cols[j] \o <<"=", "?">>]
RECURSIVE JoinedBy(_, _)
JoinedBy(elems, sep) ==
  IF elems = <<>> THEN <<>>
  ELSE IF Len(elems) = 1 THEN elems[1]
  ELSE JoinedBy(SubSeq(elems, 1, Len(elems) - 1), sep) \o sep \o elems[Len(elems)]

\* C15: UpdateSQL(item) returns "c1=?, c2=?, ..., ck=?" over the columns that
\* are not generated: between two assignments a comma and one space, and
\* no other character.
UpdateCommaJoined ==
  gen.op = "UpdateSQL"
    => GenText = JoinedBy(Assignments(ColumnsKept(gen.items[1].generated)), <<",", " ">>)

\* C15 as the code has it: between two assignments a space, a comma and a
\* space, "c1=? , c2=?": Append puts its separating space before the ", "
\* UpdateSQL puts in front of every assignment but the first.
UpdateSpaceCommaJoined ==
  gen.op = "UpdateSQL"
    => GenText = JoinedBy(Assignments(ColumnsKept(gen.items[1].generated)), <<" ", ",", " ">>)

\* UpdateSQL of a record {id, name, age} with generated id has returned
\* "name=? , age=?".
UpdateSpaceCommaJoinedWitness ==
  /\ gen.op = "UpdateSQL" /\ gen.panic = ""
  /\ gen.items[1].generated = {<<"i", "d">>}
  /\ GenText = <<"n", "a", "m", "e", "=", "?", " ", ",", " ", "a", "g", "e", "=", "?">>

\* The text without the characters that separate assignments.
Unseparated(text) == SelectSeq(text, LAMBDA ch : ch \notin {" ", ","})

\* C16: UpdateSQL(item) emits one assignment "col=?" for each column of
\* item.Values() that IsGenerated answers false for, in declared order, with
\* the column's value as the argument at the same position, and nothing for
\* a generated column.
UpdateSkipsGenerated ==
  gen.op = "UpdateSQL"
    => LET g == gen.items[1].generated
           cols == ColumnsKept(g)
       IN /\ gen.panic = ""
          /\ Unseparated(GenText) = JoinedBy(Assignments(cols), <<>>)
          /\ NumPlaceholders(GenText) = Len(cols)
          /\ GenArgs = ValuesKept(1, g)
          /\ \A i \in DOMAIN Columns :
               Columns[i] \in g => Scalar(10 + i) \notin {GenArgs[j] : j \in DOMAIN GenArgs}

\* UpdateSQL of a record with generated id and name has returned "age=?"
\* with the age as its one argument.
UpdateSkipsGeneratedWitness ==
  /\ gen.op = "UpdateSQL" /\ gen.panic = ""
  /\ gen.items[1].generated = {<<"i", "d">>, <<"n", "a", "m", "e">>}
  /\ GenText = <<"a", "g", "e", "=", "?">>
  /\ GenArgs = <<Scalar(13)>>

\* UpdateSQL of a record whose columns are all generated has returned the
\* zero Query.
UpdateAllGeneratedWitness ==
  /\ gen.op = "UpdateSQL" /\ gen.panic = ""
  /\ gen.items[1].generated = {Columns[i] : i \in DOMAIN Columns}
  /\ gen.q = ZeroQuery

(***************************************************************************)
(* Properties of ScanRow, ScanRows and IterRows.                           *)
(***************************************************************************)
\* The running function has come to a return statement, or has returned.
Returning(name) == fn.name = name /\ fn.pc \in {"return", "done"} /\ fn.sent.panic = ""

\* The query was executed and its result set has no row.
NoRowsMatched == ~db.queryErr /\ cursor.open /\ db.rows = <<>> /\ db.ended

\* C17: ScanRow on a query that executes and matches no row returns
\* sql.ErrNoRows and has not called the destination's ScanFrom: the
\* destination is as it was.
ScanRowNoRows ==
  (Returning("ScanRow") /\ NoRowsMatched)
    => /\ fn.ret = "sql: no rows in result set"
       /\ seen.scans = <<>>
       /\ seen.dest = <<>>

\* ScanRow has returned on a result set without rows.
ScanRowNoRowsWitness ==
  /\ fn.name = "ScanRow" /\ fn.pc = "done" /\ NoRowsMatched
  /\ cursor.nexts = 1 /\ cursor.closed

\* Some row's ScanFrom has failed.
ScanFromFailed == \E i \in DOMAIN db.rows : db.rows[i] = "err"

\* C18: ScanRow returns sql.ErrNoRows only when the query succeeded and its
\* result set is empty; when QueryContext fails, when advancing to the first
\* row fails, when Columns fails or when ScanFrom fails, it returns that
\* failure, never sql.ErrNoRows and never nil.
ScanRowSwallowsNoFailure ==
  Returning("ScanRow")
    => /\ fn.ret = ErrNoRows => NoRowsMatched
       /\ db.queryErr => fn.ret = QueryFailed
       /\ db.nextErr => fn.ret = NextFailed
       /\ db.columnsErr => fn.ret = ColumnsFailed
       /\ ScanFromFailed => fn.ret = ScanFailed

\* C18 without the failure of rows.Next(): the failures of QueryContext, of
\* Columns and of ScanFrom are returned as they are, and nil is returned
\* only when the first row was scanned.
ScanRowReturnsOtherFailures ==
  Returning("ScanRow")
    => /\ db.queryErr => fn.ret = QueryFailed
       /\ db.columnsErr => fn.ret = ColumnsFailed
       /\ ScanFromFailed => fn.ret = ScanFailed
       /\ fn.ret = ErrNoRows => (~db.queryErr /\ db.rows = <<>>)
       /\ fn.ret = NoError => seen.dest = <<1>>

\* The cursor QueryContext returned, if it returned one, has been closed.
Released == cursor.open => cursor.closed

\* C19: when QueryContext returned a cursor to ScanRow or ScanRows, the
\* cursor is closed once the function has returned, whichever return
\* statement it left through.
CursorReleased ==
  (fn.name \in {"ScanRow", "ScanRows"} /\ fn.pc = "done") => Released

\* ScanRows has returned the failure of the second row's ScanFrom, and the
\* cursor is closed.
CursorReleasedWitness ==
  /\ fn.name = "ScanRows" /\ fn.pc = "done" /\ fn.ret = ScanFailed
  /\ db.rows = <<"ok", "err">>
  /\ cursor.open /\ cursor.closed

\* The other ways out with a cursor: no rows, Columns failed, rows.Next
\* failed, and success, of ScanRow and of ScanRows.
ExitedWith(name, ret) ==
  /\ fn.name = name /\ fn.pc = "done" /\ fn.ret = ret
  /\ cursor.open /\ cursor.closed
CursorReleasedNoRowsWitness == ExitedWith("ScanRow", ErrNoRows)
CursorReleasedColumnsWitness == ExitedWith("ScanRow", ColumnsFailed)
CursorReleasedNextWitness == ExitedWith("ScanRows", NextFailed)
CursorReleasedSuccessWitness == ExitedWith("ScanRows", NoError) /\ Len(seen.dest) = MaxRows

\* C20: once the consumer of an IterRows sequence has stopped after a
\* yielded pair, no further row is advanced to, scanned or yielded, and
\* the cursor is closed when the iteration has returned.
EarlyStopReleases ==
  (fn.name = "IterRows" /\ seen.stopped)
    => /\ fn.pc \in {"return", "done"}
       /\ cursor.nexts = seen.atStop.nexts
       /\ Len(seen.scans) = seen.atStop.scans
       /\ Len(seen.yields) = seen.atStop.yields
       /\ fn.pc = "done" => Released

\* The consumer has stopped after the first row, a record without error:
\* one row was advanced to and scanned, and the cursor is closed.
EarlyStopReleasesWitness ==
  /\ fn.name = "IterRows" /\ fn.pc = "done" /\ seen.stopped
  /\ seen.yields = <<[rec |-> 1, err |-> NoError]>>
  /\ cursor.nexts = 1 /\ seen.scans = <<1>>
  /\ cursor.open /\ cursor.closed

\* The consumer has stopped after a pair that holds the failure of the
\* second row's ScanFrom.
EarlyStopOnErrorWitness ==
  /\ fn.name = "IterRows" /\ fn.pc = "done" /\ seen.stopped
  /\ Len(seen.yields) = 2 /\ seen.yields[2] = [rec |-> Zero, err |-> ScanFailed]
  /\ cursor.nexts = 2 /\ cursor.closed


(***************************************************************************)
(* IterRows                                                                *)
(***************************************************************************)
\* The traversal so far met no failure and the consumer did not break.
CleanTraversal ==
  /\ fn.name = "IterRows"
  /\ fn.sent.panic = ""
  /\ ~db.queryErr /\ ~db.columnsErr /\ ~db.nextErr
  /\ \A i \in 1..Len(db.rows) : db.rows[i] # "err"
  /\ ~seen.stopped

\* C21: when the n rows of the result all scan and the consumer never
\* breaks, IterRows yields the pairs (record 1, nil), ..., (record n, nil) in
\* the order of the rows, each step advances the cursor by one row, the
\* sequence ends after the n-th pair, and a pull made after the end gets no
\* more values: the zero record, a nil error and ok false.
IterRowsFullTraversal ==
  CleanTraversal =>
    /\ \A i \in 1..Len(seen.yields) :
         seen.yields[i].err = NoError /\ seen.yields[i].rec = i
    /\ seen.scans = [i \in 1..Len(seen.scans) |-> i]
    /\ fn.pc = "yield" =>
         /\ fn.pair.err = NoError /\ fn.pair.rec = Len(seen.yields) + 1
         /\ cursor.nexts = Len(seen.yields) + 1
         /\ cursor.pos = Len(seen.yields) + 1
    /\ fn.pc \in {"return", "done"} =>
         /\ db.ended
         /\ Len(seen.yields) = Len(db.rows)
         /\ cursor.nexts = Len(db.rows) + 1
    /\ seen.pulled # <<>> =>
         /\ fn.pc = "done"
         /\ seen.pulled = <<[rec |-> Zero, err |-> NoError, ok |-> FALSE]>>

IterRowsFullTraversalWitness ==
  /\ CleanTraversal
  /\ fn.pc = "done"
  /\ Len(db.rows) = MaxRows
  /\ Len(seen.yields) = MaxRows
  /\ seen.pulled # <<>>

\* C22: when QueryContext fails, IterRows yields one pair, the zero record
\* with the failure, and ends: Next is never called, there is no cursor.
IterRowsQueryError ==
  (fn.name = "IterRows" /\ db.queryErr) =>
    /\ cursor = NoCursor
    /\ seen.scans = <<>>
    /\ db.rows = <<>>
    /\ fn.pc = "yield" =>
         fn.pair = [rec |-> Zero, err |-> QueryFailed] /\ fn.final /\ seen.yields = <<>>
    /\ fn.pc \in {"return", "done"} => seen.yields = <<[rec |-> Zero, err |-> QueryFailed]>>
    /\ fn.pc \in {"yield", "return", "done"}

IterRowsQueryErrorWitness ==
  /\ fn.name = "IterRows"
  /\ db.queryErr
  /\ fn.pc = "done"
  /\ ~seen.stopped
  /\ seen.yields = <<[rec |-> Zero, err |-> QueryFailed]>>

(***************************************************************************)
(* StmtCache: preparation failures, keys, Close and the lock.              *)
(***************************************************************************)
\* The callers of QueryContext/ExecContext whose PrepareContext failed.
FailedFor(t) == {p \in Callers : call[p].query = t /\ call[p].err}

\* The PrepareContext calls made for text t that failed.
Refused(t) == {i \in DOMAIN prepares[t] : prepares[t][i] = "err"}

\* C23: when PrepareContext fails for a text, the caller of QueryContext or
\* ExecContext gets that failure, the map gets no entry for the text, the
\* lock is released when the call returns, and a later request for the text
\* finds no entry and calls PrepareContext again.
PrepareErrorNotCached ==
  \A t \in Texts :
    /\ Cardinality(FailedFor(t)) = Cardinality(Refused(t))
    /\ \A p \in FailedFor(t) :
         /\ call[p].stmt = NoStmt
         /\ call[p].pc \in {"unlock", "done"}
         /\ call[p].pc = "done" => call[p].result = "prepare error" /\ mu.writer # p
    /\ (cache[t] # NoStmt) = (Prepared(t) # {})
    /\ \A p \in Callers :
         (call[p].query = t /\ call[p].kind \in {"QueryContext", "ExecContext"}
            /\ call[p].pc \in {"use", "done"} /\ ~call[p].err)
           => Prepared(t) # {}

PrepareErrorNotCachedWitness ==
  \E t \in Texts : \E p, q \in Callers :
    /\ p < q
    /\ call[p].query = t /\ call[p].pc = "done" /\ call[p].result = "prepare error"
    /\ call[q].query = t /\ call[q].pc = "done" /\ call[q].result = "ok"
    /\ prepares[t] = <<"err", "ok">>
    /\ mu.writer = NoCaller

\* No Close has been called and no PrepareContext has failed.
AllSucceeded ==
  /\ \A p \in Callers : call[p].kind # "Close"
  /\ \A t \in Texts : Refused(t) = {}

\* The texts whose QueryContext/ExecContext on the cache has returned.
Requested ==
  {call[p].query : p \in {q \in Callers : /\ call[q].kind \in {"QueryContext", "ExecContext"}
                                          /\ call[q].pc = "done"}}

\* The texts some call made on the cache has asked getStmt for.
Asked ==
  {call[p].query : p \in {q \in Callers : call[q].kind \in {"QueryContext", "ExecContext"}}}

\* C24: over successful QueryContext/ExecContext calls made before Close,
\* PrepareContext has been called once for each distinct text requested and
\* for no other: a text asked for again is not prepared again, a text that
\* differs only in whitespace is prepared on its own, and calls made on the
\* connection itself prepare nothing.
KeyedByExactText ==
  AllSucceeded =>
    \A t \in Texts :
      /\ Len(prepares[t]) <= 1
      /\ t \in Requested => Len(prepares[t]) = 1
      /\ t \notin Asked => Len(prepares[t]) = 0

KeyedByExactTextWitness ==
  /\ AllSucceeded
  /\ \A p \in Callers : call[p].pc = "done"
  /\ \E p \in Callers : call[p].kind = "direct"
  /\ \E p, q \in Callers :
       /\ p # q
       /\ call[p].kind \in {"QueryContext", "ExecContext"}
       /\ call[q].kind \in {"QueryContext", "ExecContext"}
       /\ call[p].query = "select 1" /\ call[q].query = "select  1"
  /\ \A t \in Texts : prepares[t] = <<"ok">>

KeyedByExactTextRepeatWitness ==
  /\ AllSucceeded
  /\ \A p \in Callers :
       call[p].pc = "done" /\ call[p].kind = "QueryContext" /\ call[p].query = "select 1"
  /\ prepares["select 1"] = <<"ok">>

\* C25: Close calls stmt.Close() on every statement of the map, whether an
\* earlier one failed or not; it returns one failure that joins every
\* failure met, and nil when none failed or the map is empty.
CloseTriesEveryStatement ==
  \A p \in Callers :
    call[p].kind = "Close" =>
      /\ call[p].errs \subseteq call[p].found \ call[p].todo
      /\ \A t \in (call[p].found \ call[p].todo) \ call[p].errs : stmts[cache[t]].closed
      /\ call[p].pc = "done" =>
           /\ call[p].todo = {}
           /\ (call[p].result = "ok") = (call[p].errs = {})
           /\ (call[p].result = "closing statements") = (call[p].errs # {})

CloseTriesEveryStatementWitness ==
  \E p \in Callers :
    /\ call[p].kind = "Close"
    /\ call[p].pc = "done"
    /\ call[p].found = Texts
    /\ call[p].errs = Texts
    /\ call[p].result = "closing statements"

CloseAfterFailureWitness ==
  \E p \in Callers :
    /\ call[p].kind = "Close"
    /\ call[p].pc = "done"
    /\ call[p].errs # {}
    /\ \E t \in call[p].found \ call[p].errs : stmts[cache[t]].closed

CloseEmptyWitness ==
  \E p \in Callers :
    /\ call[p].kind = "Close"
    /\ call[p].pc = "done"
    /\ call[p].found = {}
    /\ call[p].result = "ok"

\* Close has returned and no call has been started since.
JustClosed(c) ==
  /\ call[c].kind = "Close"
  /\ call[c].pc = "done"
  /\ \A p \in Callers : p > c => call[p].pc = "idle"

\* C26: once Close has returned the map holds no entry.
CloseEmptiesCache ==
  \A c \in Callers : JustClosed(c) => \A t \in Texts : cache[t] = NoStmt

\* C26: a call started after Close is not served a statement that Close
\* released.
ClosedNeverServed ==
  \A c, p \in Callers :
    (/\ call[c].kind = "Close"
     /\ c < p
     /\ \A q \in Callers : q > c => call[q].kind # "Close"
     /\ call[p].stmt # NoStmt)
      => ~stmts[call[p].stmt].closed

\* The callers about to read the map, holding the read lock.
Reading == {p \in Callers : call[p].pc = "read"}

\* The callers between sc.mu.Lock() and the deferred sc.mu.Unlock(): they
\* have read the map a second time or range over it, and may write to it.
Writing == {p \in Callers : call[p].pc \in {"prepare", "unlock", "closing"}}

\* C27: in every interleaving of QueryContext, ExecContext and Close, a
\* caller reads the map only while it holds the read lock or the lock and
\* writes it only while it holds the lock; no caller holds the read lock or
\* the lock while another holds the lock; at most one PrepareContext is in
\* progress.
MapGuardedByLock ==
  /\ mu.readers = Reading
  /\ \A p \in Writing : mu.writer = p
  /\ mu.writer # NoCaller => (mu.writer \in Writing /\ mu.readers = {})
  /\ Cardinality(Writing) <= 1
  /\ Cardinality({p \in Callers : call[p].pc = "prepare"}) <= 1

MapGuardedByLockWitness ==
  \E p, q, r \in Callers :
    /\ call[p].pc = "prepare"
    /\ call[q].pc = "lock"
    /\ call[r].pc = "rlock"

MapGuardedByLockReadersWitness ==
  \E p, q \in Callers :
    /\ p # q
    /\ {p, q} \subseteq mu.readers
    /\ \E r \in Callers : call[r].pc = "lock"


(***************************************************************************)
(* What the connection is handed, and the log function.                    *)
(***************************************************************************)
\* The function has not reached its call of the connection.
BeforeConnCall == fn.pc \in {"query", "exec"}

\* C28: ScanRow, ScanRows, IterRows and Exec hand the connection the text
\* and the arguments that NewQuery(query, args...).SQL() returns for their
\* own query and args; nothing is handed before the expansion has returned,
\* and one invocation makes one QueryContext or ExecContext call.
HandsExpansion ==
  fn.name \in Funcs =>
    /\ Len(db.calls) <= 1
    /\ (fn.sent.panic # "" \/ BeforeConnCall) => db.calls = <<>>
    /\ (fn.sent.panic = "" /\ ~BeforeConnCall) =>
         /\ Len(db.calls) = 1
         /\ db.calls[1].op = (IF fn.name = "Exec" THEN "ExecContext" ELSE "QueryContext")
         /\ Expanded(fn.in).panic = ""
         /\ db.calls[1].text = Expanded(fn.in).text
         /\ db.calls[1].args = Expanded(fn.in).args

\* The function has returned after handing the connection the expansion of
\* "x?" with InSQL(1, 2): "x(?, ?)" with 1 and 2.
HandedExpansionOfSQLer(name) ==
  /\ fn.name = name
  /\ fn.pc = "done"
  /\ fn.in.query = <<"x", "?">>
  /\ Len(db.calls) = 1
  /\ db.calls[1].text # fn.in.query
  /\ db.calls[1].args = <<Scalar(1), Scalar(2)>>

HandsExpansionWitness == HandedExpansionOfSQLer("Exec")
HandsExpansionScanRowWitness == HandedExpansionOfSQLer("ScanRow")
HandsExpansionScanRowsWitness == HandedExpansionOfSQLer("ScanRows")
HandsExpansionIterRowsWitness == HandedExpansionOfSQLer("IterRows")


(***************************************************************************)
(* JSON.Scan                                                               *)
(***************************************************************************)
\* C29: after Scan(nil) the error is nil and Data is the zero value of its
\* type, whatever Data held before; after Scan of a value that is neither
\* []byte nor string the error is not nil.
ScanNullGivesZero ==
  /\ json.value.type = "nil" => (json.err = NoError /\ json.Data = NilMap)
  /\ json.value.type = "int" => json.err # NoError

\* Scan(nil) returns nil and leaves Data as it was; Scan of a value that is
\* neither []byte nor string fails and leaves Data as it was.
ScanNullKeepsData ==
  /\ json.value.type = "nil" => (json.err = NoError /\ json.Data = json.before)
  /\ json.value.type = "int" => (json.err = WantBytesOrString /\ json.Data = json.before)

ScanNullKeepsDataWitness ==
  /\ json.value.type = "nil"
  /\ json.before # NilMap
  /\ json.Data = json.before

ScanNullOnZeroWitness ==
  /\ json.value.type = "nil"
  /\ json.before = NilMap
  /\ json.Data = NilMap


\* The call in progress was given a log function and has not returned.
LogPending == fn.lf /\ fn.pc # "done"

\* The calls that were given a log function and have returned.
LoggedCalls == SubSeq(logs.made, 1, Len(logs.made) - (IF LogPending THEN 1 ELSE 0))

\* C30: the log function is invoked once for every ScanRow, ScanRows and
\* Exec call whose context carries it, when the call returns, the
\* connection call having succeeded or failed, with "query" for ScanRow and
\* ScanRows and "exec" for Exec and with the expanded text; the invocations
\* come in the order of the calls; a call whose context carries no log
\* function invokes nothing.
LoggedOncePerCall ==
  /\ Len(logs.hooks) = Len(LoggedCalls)
  /\ \A i \in 1..Len(LoggedCalls) :
       /\ logs.hooks[i].typ = (IF LoggedCalls[i].name = "Exec" THEN "exec" ELSE "query")
       /\ logs.hooks[i].query = Expanded(LoggedCalls[i].in).text
  /\ (fn.lf /\ fn.pc = "done") => Len(db.calls) = 1
  /\ LogPending => logs.made[Len(logs.made)] = [name |-> fn.name, in |-> fn.in]

LoggedOncePerCallWitness ==
  /\ fn.pc = "done"
  /\ Len(logs.made) = 3
  /\ logs.made[1].name = "ScanRow" /\ logs.made[2].name = "Exec" /\ logs.made[3].name = "ScanRow"
  /\ Len(logs.hooks) = 3
  /\ logs.hooks[1].typ = "query" /\ logs.hooks[2].typ = "exec" /\ logs.hooks[3].typ = "query"

LoggedOnFailureWitness ==
  /\ fn.pc = "done"
  /\ fn.lf
  /\ fn.ret \in {QueryFailed, ExecFailed}
  /\ Len(logs.hooks) = Len(logs.made)
  /\ Len(logs.hooks) >= 2

NothingLoggedWitness ==
  /\ fn.pc = "done"
  /\ fn.sent.panic = ""
  /\ logs.calls = MaxLogged
  /\ logs.made = <<>>
  /\ logs.hooks = <<>>

(***************************************************************************)
(* ScanRows and IterRows when scans fail.                                  *)
(***************************************************************************)
\* The rows whose scan failed.
FailedRows == {i \in DOMAIN db.rows : db.rows[i] = "err"}

\* The function was handed a cursor and its columns.
Iterating(name) ==
  /\ fn.name = name
  /\ fn.sent.panic = ""
  /\ Len(db.calls) = 1
  /\ ~db.queryErr
  /\ ~db.columnsErr
  /\ fn.pc # "columns"

LeftWith(ret) == fn.pc \in {"return", "done"} /\ fn.ret = ret

\* C31: ScanRows scans the rows in the order the connection returns them;
\* at the first row whose scan fails it returns that failure without
\* calling rows.Next() again, the rows scanned before it staying in the
\* destination; when every row scans it returns rows.Err(), nil when there
\* is none; a result with no rows returns nil and leaves the destination
\* as it was.
ScanRowsStopsAtFirstFailure ==
  Iterating("ScanRows") =>
    /\ seen.scans = [i \in 1..Len(seen.scans) |-> i]
    /\ seen.dest = [i \in 1..Len(seen.dest) |-> i]
    /\ FailedRows # {} =>
         /\ FailedRows = {Len(db.rows)}
         /\ LeftWith(ScanFailed)
         /\ cursor.nexts = Len(db.rows)
         /\ Len(seen.scans) = Len(db.rows)
         /\ Len(seen.dest) = Len(db.rows) - 1
    /\ (FailedRows = {} /\ fn.pc \in {"return", "done"}) =>
         /\ fn.ret = (IF db.nextErr THEN NextFailed ELSE NoError)
         /\ db.nextErr \/ db.ended
         /\ Len(seen.dest) = Len(db.rows)
         /\ cursor.nexts = Len(db.rows) + 1

ScanRowsStopsAtFirstFailureWitness ==
  /\ Iterating("ScanRows")
  /\ fn.pc = "done"
  /\ fn.ret = ScanFailed
  /\ Len(db.rows) = MaxRows
  /\ seen.dest = [i \in 1..(MaxRows - 1) |-> i]

ScanRowsAllWitness ==
  /\ Iterating("ScanRows")
  /\ fn.pc = "done"
  /\ fn.ret = NoError
  /\ seen.dest = [i \in 1..MaxRows |-> i]

ScanRowsNextErrorWitness ==
  /\ Iterating("ScanRows")
  /\ fn.pc = "done"
  /\ fn.ret = NextFailed
  /\ Len(seen.dest) >= 1

ScanRowsNoRowsWitness ==
  /\ Iterating("ScanRows")
  /\ fn.pc = "done"
  /\ fn.ret = NoError
  /\ db.rows = <<>>
  /\ seen.dest = <<>>

\* The pair IterRows owes the consumer for row i.
PairOf(i) ==
  IF db.rows[i] = "err" THEN [rec |-> Zero, err |-> ScanFailed]
  ELSE [rec |-> i, err |-> NoError]

\* C32: in IterRows a row whose scan fails yields the one pair (zero
\* record, scan error) and, the consumer going on, the next row is advanced
\* to: a traversal the consumer never breaks yields one pair for each row
\* the connection returned, in order, and one more pair (zero record,
\* error) at the end when rows.Next() itself failed.
ScanErrorNotTerminal ==
  (Iterating("IterRows") /\ ~seen.stopped) =>
    /\ \A i \in 1..Len(seen.yields) :
         i <= Len(db.rows) =>
           /\ seen.yields[i].err = PairOf(i).err
           /\ seen.yields[i].err = NoError => seen.yields[i].rec = i
           /\ seen.yields[i].err # NoError => seen.yields[i].rec = Zero
    /\ Len(seen.yields) <= Len(db.rows) + 1
    /\ Len(seen.yields) = Len(db.rows) + 1 =>
         /\ db.nextErr
         /\ seen.yields[Len(seen.yields)] = [rec |-> Zero, err |-> NextFailed]
    /\ fn.pc = "next" => Len(seen.yields) = Len(db.rows)
    /\ fn.pc \in {"return", "done"} =>
         /\ db.nextErr \/ db.ended
         /\ Len(seen.yields) = Len(db.rows) + (IF db.nextErr THEN 1 ELSE 0)
         /\ cursor.nexts = Len(db.rows) + 1

ScanErrorNotTerminalWitness ==
  /\ Iterating("IterRows")
  /\ ~seen.stopped
  /\ fn.pc = "done"
  /\ Len(db.rows) = MaxRows
  /\ db.rows[1] = "err"
  /\ db.rows[MaxRows] = "ok"
  /\ db.ended
  /\ Len(seen.yields) = MaxRows

ScanErrorThenNextErrorWitness ==
  /\ Iterating("IterRows")
  /\ ~seen.stopped
  /\ fn.pc = "done"
  /\ FailedRows # {}
  /\ db.nextErr
  /\ Len(seen.yields) = Len(db.rows) + 1
(***************************************************************************)
(* Copies of a Query, the zero Query and expansion of an expansion.        *)
(***************************************************************************)
\* The copies of Query values held as arguments by the variables.
CopiesIn(q) == {q.args[i].q : i \in {j \in DOMAIN q.args : IsSQLer(q.args[j])}}
Copies == UNION {CopiesIn(qv[v]) : v \in QVars}

\* C33: a copy of a Query keeps placeholder/argument parity whatever is
\* appended to the other copies afterwards: its text has as many '?' as it
\* has arguments, and so has what its SQL() returns.
CopiesKeepParity ==
  \A c \in Copies :
    /\ NumPlaceholders(BufferOf(c, builders)) = Len(c.args)
    /\ LET r == SQL(c, builders)
       IN r.panic = "" => NumPlaceholders(r.text) = Len(r.args)

\* C34: SQL() on a Query that was created empty and never appended to
\* returns the empty text and no arguments: it does not panic.
ZeroQuerySQLReturnsEmpty ==
  (out.op = "SQL" /\ out.before = ZeroQuery)
    => /\ out.panic = ""
       /\ out.text = <<>>
       /\ out.args = <<>>

\* C34: the fragment UpdateSQL returns can be expanded as the argument of
\* another Query, whatever columns the record calls generated.
UpdateFragmentExpands ==
  (gen.op = "UpdateSQL" /\ gen.panic = "")
    => LET r == NewQuery(gen.builders, <<"x", "?">>, <<SubQuery(gen.q)>>)
       IN r.panic = "" /\ SQL(r.q, r.builders).panic = ""

\* C35: the pair (t, a) that SQL() returns can be handed to NewQuery, which
\* does not panic, and the SQL() of that Query returns (t, a).
ExpansionIdempotent ==
  (out.op = "SQL" /\ out.panic = "")
    => LET r == NewQuery(<<>>, out.text, out.args)
       IN /\ r.panic = ""
          /\ SQL(r.q, r.builders) = Returned(out.text, out.args)

\* The same, for the pairs that have as many '?' as arguments.
ExpansionIdempotentOnBalanced ==
  (out.op = "SQL" /\ out.panic = "" /\ NumPlaceholders(out.text) = Len(out.args))
    => LET r == NewQuery(<<>>, out.text, out.args)
       IN /\ r.panic = ""
          /\ SQL(r.q, r.builders) = Returned(out.text, out.args)

(***************************************************************************)
(* InsertSQL over items of different shapes.                               *)
(***************************************************************************)
\* The number of values of an item that InsertSQL does not skip.
KeptCount(item) == Len(Columns) - Cardinality(item.generated)

RECURSIVE KeptTotal(_)
KeptTotal(items) ==
  IF items = <<>> THEN 0 ELSE KeptCount(items[1]) + KeptTotal(Tail(items))

WantGot(want, got) == "want " \o ToString(want) \o " args, got " \o ToString(got)

\* C37: InsertSQL returns no fragment whose '?' count differs from its
\* argument count, and panics with Append's message whenever an item after
\* the first has another number of values that are not generated than the
\* first.
InsertShapeMismatchPanics ==
  (gen.op = "InsertSQL" /\ Len(gen.items) >= 1)
    => LET n == Len(gen.items)
           k == KeptCount(gen.items[1])
       IN /\ gen.panic = "" => NumPlaceholders(GenText) = Len(GenArgs)
          /\ (\E i \in 2..n : KeptCount(gen.items[i]) # k)
               => gen.panic = WantGot(n * k, KeptTotal(gen.items))

\* C37 as the code has it: InsertSQL returns no fragment whose '?' count
\* differs from its argument count; it panics with Append's message exactly
\* when the values that are not generated, counted over all the items, are
\* not as many as the items times those of the first item.
InsertTotalMismatchPanics ==
  (gen.op = "InsertSQL" /\ Len(gen.items) >= 1)
    => LET n == Len(gen.items)
           k == KeptCount(gen.items[1])
           total == KeptTotal(gen.items)
       IN /\ gen.panic = "" => (NumPlaceholders(GenText) = Len(GenArgs) /\ total = n * k)
          /\ gen.panic # "" => (total # n * k /\ gen.panic = WantGot(n * k, total))

\* InsertSQL has panicked on a second item with one value more than the
\* first.
InsertTotalMismatchPanicsWitness ==
  /\ gen.op = "InsertSQL"
  /\ Len(gen.items) = 2
  /\ KeptCount(gen.items[1]) = 2 /\ KeptCount(gen.items[2]) = 3
  /\ gen.panic = "want 4 args, got 5"

\* InsertSQL has returned for items of which the second has one value more
\* and the third one value less than the first.
InsertCancellingShapesWitness ==
  /\ gen.op = "InsertSQL"
  /\ Len(gen.items) = 3
  /\ KeptCount(gen.items[1]) = 2 /\ KeptCount(gen.items[2]) = 3 /\ KeptCount(gen.items[3]) = 1
  /\ gen.panic = ""
(***************************************************************************)
(* Close and the statements in use; termination of the calls.              *)
(***************************************************************************)
\* The callers getStmt has handed a statement that they have not executed
\* yet.
InFlight == {p \in Callers : call[p].pc = "use"}

\* C36: in every interleaving of QueryContext, ExecContext and Close, the
\* statement a caller has been handed is not closed before the caller has
\* executed on it.
HandedNotReleased ==
  \A p \in InFlight : ~stmts[call[p].stmt].closed
LockFree == mu.writer = NoCaller /\ mu.readers = {}

\* No call is in progress.
AllReturned == \A p \in Callers : call[p].pc \in {"idle", "done"}

\* C38: whenever QueryContext, ExecContext or Close calls are in progress,
\* a state follows in which every call that has started has returned,
\* whether PrepareContext or stmt.Close() failed or not, and the lock is
\* free; the lock is free whenever no call is in progress.
EveryCallReturns ==
  /\ (~AllReturned) ~> (AllReturned /\ LockFree)
  /\ [](AllReturned => LockFree)

\* Every caller has returned, one of them after PrepareContext failed, one
\* of them from Close, and the lock is free.
EveryCallReturnsWitness ==
  /\ \A p \in Callers : call[p].pc = "done"
  /\ \E p \in Callers : call[p].result = "prepare error"
  /\ \E p \in Callers : call[p].kind = "Close"
  /\ LockFree
\* The connection calls of every traversal of the sequence so far.
TraversalCalls == fn.past \o db.calls

\* C39: calling IterRows calls neither the connection nor the log function;
\* each traversal of the returned sequence whose expansion returns executes
\* the query exactly once, and the log function, if the context carries one,
\* is invoked once per traversal, when the traversal ends, and by then the
\* cursor of that traversal is closed or the query has failed. (A traversal
\* whose expansion panics calls neither.)
IterRowsLazy ==
  fn.name = "IterRows" =>
    /\ fn.pc = "seq" =>
         /\ TraversalCalls = <<>>
         /\ logs.hooks = <<>>
         /\ cursor = NoCursor
    /\ (fn.runs >= 1 /\ fn.sent.panic # "") =>
         /\ TraversalCalls = <<>>
         /\ logs.hooks = <<>>
    /\ (fn.runs >= 1 /\ fn.sent.panic = "") =>
         /\ Len(fn.past) = fn.runs - 1
         /\ Len(db.calls) = IF fn.pc = "query" THEN 0 ELSE 1
         /\ \A i \in 1..Len(TraversalCalls) : TraversalCalls[i].op = "QueryContext"
         /\ Len(logs.hooks) = IF ~fn.lf THEN 0
                              ELSE IF fn.pc = "done" THEN fn.runs ELSE fn.runs - 1
         /\ \A i \in 1..Len(logs.hooks) :
              logs.hooks[i] = [typ |-> "query", query |-> fn.sent.text]
         /\ (fn.pc = "done" /\ fn.lf) => seen.atLog # <<>>
    /\ seen.atLog # <<>> =>
         /\ fn.pc = "done"
         /\ seen.atLog[1].open => seen.atLog[1].closed
         /\ ~seen.atLog[1].open => db.queryErr

IterRowsLazyWitness ==
  /\ fn.name = "IterRows" /\ fn.pc = "done" /\ fn.lf
  /\ fn.runs = MaxTraversals
  /\ Len(TraversalCalls) = MaxTraversals
  /\ Len(logs.hooks) = MaxTraversals
  /\ Len(seen.yields) >= 1
  /\ seen.atLog # <<>> /\ seen.atLog[1].closed

IterRowsLazyQueryFailedWitness ==
  /\ fn.name = "IterRows" /\ fn.pc = "done" /\ fn.lf
  /\ db.queryErr /\ ~cursor.open
  /\ Len(logs.hooks) = fn.runs

IterRowsNotTraversedWitness ==
  /\ fn.name = "IterRows" /\ fn.pc = "seq" /\ fn.lf
  /\ fn.in.args # <<>>

\* Every traversal of one sequence hands the connection the same text and the
\* same arguments.
SameQueryEachTraversal ==
  fn.name = "IterRows" =>
    \A i, j \in 1..Len(TraversalCalls) : TraversalCalls[i] = TraversalCalls[j]

SameQueryEachTraversalWitness ==
  /\ fn.name = "IterRows"
  /\ Len(TraversalCalls) = MaxTraversals
  /\ TraversalCalls[1].args # <<>>
=========================================================================
